---- MODULE Spec2Model ----
(***************************************************************************)
(* A model of the AMAGO agent update engine (src/amago/agent.py) and of    *)
(* the trainer that drives it (src/amago/learning.py).                     *)
(*                                                                         *)
(* Spec    the parameter state machine: construction of an Agent or a      *)
(*         MultiTaskAgent, hard_sync_targets, soft_sync_targets,           *)
(*         Experiment.init_optimizer, Experiment.train_step, Agent.update. *)
(* SpecTD  the TD-target part of Agent.forward / MultiTaskAgent.forward    *)
(*         applied to drawn batches, critic outputs and random subsets.    *)
(*                                                                         *)
(* Numbers are fixed point.  Network parameters are integers in units of   *)
(* 1/Scale, so that MaxSoftSyncs exponential-moving-average copies with a  *)
(* rate tau = k/TauDen are exact.  TD values are integers in units of      *)
(* 1/TDUnit, so that a product with gamma = k/GammaDen and a mean over at  *)
(* most NumCritics drawn targets are exact.                                *)
(***************************************************************************)
EXTENDS Integers, Sequences, FiniteSets, TLC

VARIABLES
    self,           \* the agent object: its class, its references to networks, tau
    params,         \* heap of networks: object id -> parameter vector
    agentOptimizer, \* Agent.optimizer: the networks whose parameters it holds
    expOptimizer,   \* Experiment.optimizer: the same, {} before init_optimizer
    lastOp,         \* the operation that produced this state
    lastFwd,        \* what the most recent training forward pass read
    stepsDone,      \* optimizer.step() calls so far
    syncsDone,      \* soft_sync_targets calls so far
    syncsSinceStep, \* soft_sync_targets calls since the last optimizer.step()
    cfg,            \* SpecTD: the hyper-parameters of the agent under test
    batch,          \* SpecTD: the trajectory batch handed to forward
    popart,         \* SpecTD: the PopArt statistics
    td,             \* SpecTD: what the last forward pass computed
    loss,           \* SpecLoss: two engines computing the loss of paired batches
    ctor,           \* SpecCtor: an Agent constructor call and its outcome
    dpg,            \* SpecDPG: a forward pass up to the DPG loss, and its outcome
    act,            \* SpecAct: a get_actions call and what it returned
    rollout,        \* SpecRollout: the loop of Experiment.interact
    epoch,          \* SpecLearn: the loop of Experiment.learn
    fwd,            \* SpecFwd: the loss tensors of one forward pass and what they read
    writers,        \* SpecWriters: the engine state across train, validation and rollout
    collect,        \* SpecCollect: buffers and hidden state across epochs
    procs           \* SpecProcs: the data-parallel processes of Experiment.learn

syncVars == <<self, params, agentOptimizer, expOptimizer, lastOp, lastFwd,
              stepsDone, syncsDone, syncsSinceStep>>
tdVars == <<cfg, batch, popart, td>>
moreVars == <<fwd, writers, collect, procs>>
auxVars == <<loss, ctor, dpg, act, rollout, epoch, fwd, writers, collect, procs>>
vars == <<self, params, agentOptimizer, expOptimizer, lastOp, lastFwd,
          stepsDone, syncsDone, syncsSinceStep, cfg, batch, popart, td,
          loss, ctor, dpg, act, rollout, epoch, fwd, writers, collect, procs>>

(***************************************************************************)
(* Bounds of the model.                                                    *)
(***************************************************************************)
NumParams == 2
MaxSeed == 1
MaxSteps == 2
MaxSoftSyncs == 2
TauDen == 4

RECURSIVE Pow(_, _)
Pow(b, e) == IF e = 0 THEN 1 ELSE b * Pow(b, e - 1)

Scale == Pow(TauDen, MaxSoftSyncs)
ParamIdx == 1 .. NumParams
\* tau in (0, 1), as a numerator over TauDen
Taus == 1 .. (TauDen - 1)
\* what one optimizer step adds to each parameter it holds, in whole units
Deltas == {-1, 0, 1}

(***************************************************************************)
(* The networks an agent allocates.                                        *)
(***************************************************************************)
AgentObjs == <<"tstep_encoder", "traj_encoder", "NCritics_online", "NCritics_target",
               "NCritics_maximized", "Actor_online", "Actor_target">>
TwoHotObjs == <<"NCriticsTwoHot_online", "NCriticsTwoHot_target",
                "NCriticsTwoHot_maximized">>

Range(s) == {s[i] : i \in DOMAIN s}

\* A freshly constructed network: its random initial parameters, as a function of
\* the random seed and of the order of construction.
InitParams(k, seed) == [i \in ParamIdx |-> ((k + i + seed) % 3) * Scale]

Alloc(objs, base, seed) ==
    [o \in Range(objs) |->
        InitParams(base + (CHOOSE k \in DOMAIN objs : objs[k] = o), seed)]

NoAgent ==
    [cls |-> "none", tstep_encoder |-> "none", traj_encoder |-> "none",
     critics |-> "none", target_critics |-> "none", maximized_critics |-> "none",
     actor |-> "none", target_actor |-> "none", tau |-> 0]

NoFwd == [op |-> "none"]

\* (mutant) the target critics are handed to the optimizer as well
trainable_params_with_targets(s) ==
    {s.tstep_encoder, s.traj_encoder, s.critics, s.actor, s.target_critics}

\* Agent.trainable_params: everything but the target networks
trainable_params(s) == {s.tstep_encoder, s.traj_encoder, s.critics, s.actor}

\* (mutant) the copy runs from the target into the online network
_full_copy_reversed(p, target, online) ==
    [p EXCEPT ![online] = [i \in ParamIdx |-> p[target][i]]]

\* Agent._full_copy
_full_copy(p, target, online) ==
    [p EXCEPT ![target] = [i \in ParamIdx |-> p[online][i]]]

\* (mutant) the two weights of the moving average are exchanged
_ema_copy_swapped(p, target, online, tau) ==
    [p EXCEPT ![target] =
        [i \in ParamIdx |-> (p[target][i] * tau + p[online][i] * (TauDen - tau)) \div TauDen]]

\* Agent._ema_copy: target <- target * (1 - tau) + online * tau
_ema_copy(p, target, online, tau) ==
    [p EXCEPT ![target] =
        [i \in ParamIdx |-> (p[target][i] * (TauDen - tau) + p[online][i] * tau) \div TauDen]]

\* (mutant) the target actor is left out of the hard copy
hard_sync_targets_no_actor(p, s) ==
    LET p1 == _full_copy(p, s.target_critics, s.critics)
    IN  _full_copy(p1, s.maximized_critics, s.critics)

\* Agent.hard_sync_targets
hard_sync_targets(p, s) ==
    LET p1 == _full_copy(p, s.target_critics, s.critics)
        p2 == _full_copy(p1, s.target_actor, s.actor)
    IN  _full_copy(p2, s.maximized_critics, s.critics)

\* Agent.soft_sync_targets
soft_sync_targets(p, s) ==
    LET p1 == _ema_copy(p, s.target_critics, s.critics, s.tau)
        p2 == _ema_copy(p1, s.target_actor, s.actor, s.tau)
    IN  _full_copy(p2, s.maximized_critics, s.critics)

\* torch.optim.AdamW.step on the parameters the optimizer was built with
optimizer_step(p, held, d) ==
    [o \in DOMAIN p |->
        IF o \in held THEN [i \in ParamIdx |-> p[o][i] + d * Scale] ELSE p[o]]

\* Agent.__init__ up to and including the optimizer
AgentSelf(cls, tau) ==
    [cls |-> cls, tstep_encoder |-> "tstep_encoder", traj_encoder |-> "traj_encoder",
     critics |-> "NCritics_online", target_critics |-> "NCritics_target",
     maximized_critics |-> "NCritics_maximized",
     actor |-> "Actor_online", target_actor |-> "Actor_target", tau |-> tau]

\* MultiTaskAgent.__init__ after super().__init__: the three ensembles are replaced
MultiTaskSelf(s) ==
    [s EXCEPT !.critics = "NCriticsTwoHot_online",
              !.target_critics = "NCriticsTwoHot_target",
              !.maximized_critics = "NCriticsTwoHot_maximized"]

\* what a training forward pass reads of the networks and of the schedule
ForwardReads(op) ==
    [op |-> op,
     online |-> params[self.critics],
     maximized |-> params[self.maximized_critics],
     target |-> params[self.target_critics],
     stepsDone |-> stepsDone,
     syncsSinceStep |-> syncsSinceStep]

(***************************************************************************)
(* Spec: the parameter state machine.                                      *)
(***************************************************************************)
SyncInit ==
    /\ self = NoAgent
    /\ params = [o \in {} |-> <<>>]
    /\ agentOptimizer = {}
    /\ expOptimizer = {}
    /\ lastOp = "none"
    /\ lastFwd = NoFwd
    /\ stepsDone = 0
    /\ syncsDone = 0
    /\ syncsSinceStep = 0

TDIdle ==
    /\ cfg = [cls |-> "none"]
    /\ batch = [rews |-> <<>>]
    /\ popart = [t |-> 0]
    /\ td = [op |-> "none"]

LossIdle == loss = [op |-> "none"]
CtorIdle == ctor = [op |-> "none"]
DpgIdle == dpg = [op |-> "none"]
ActIdle == act = [op |-> "none"]
RolloutIdle == rollout = [op |-> "none"]
EpochIdle == epoch = [op |-> "none"]
FwdIdle == fwd = [op |-> "none"]
WritersIdle == writers = [op |-> "none"]
CollectIdle == collect = [op |-> "none"]
ProcsIdle == procs = [op |-> "none"]
MoreIdle == FwdIdle /\ WritersIdle /\ CollectIdle /\ ProcsIdle

\* none of the other engine operations has been called
AuxIdle ==
    LossIdle /\ CtorIdle /\ DpgIdle /\ ActIdle /\ RolloutIdle /\ EpochIdle /\ MoreIdle

Init == SyncInit /\ TDIdle /\ AuxIdle

\* Agent(...)
AgentInit ==
    /\ self.cls = "none"
    /\ \E seed \in 0 .. MaxSeed, tau \in Taus :
        LET s == AgentSelf("Agent", tau)
        IN  /\ self' = s
            /\ params' = hard_sync_targets(Alloc(AgentObjs, 0, seed), s)
            /\ agentOptimizer' = trainable_params(s)
    /\ lastOp' = "Agent.__init__"
    /\ UNCHANGED <<expOptimizer, lastFwd, stepsDone, syncsDone, syncsSinceStep>>
    /\ UNCHANGED tdVars
    /\ UNCHANGED auxVars

\* MultiTaskAgent(...)
MultiTaskAgentInit ==
    /\ self.cls = "none"
    /\ \E seed \in 0 .. MaxSeed, tau \in Taus :
        LET s0 == AgentSelf("MultiTaskAgent", tau)
            p0 == hard_sync_targets(Alloc(AgentObjs, 0, seed), s0)
            s1 == MultiTaskSelf(s0)
            p1 == p0 @@ Alloc(TwoHotObjs, Len(AgentObjs), seed)
        IN  /\ self' = s1
            /\ params' = hard_sync_targets(p1, s1)
            /\ agentOptimizer' = trainable_params(s0)
    /\ lastOp' = "MultiTaskAgent.__init__"
    /\ UNCHANGED <<expOptimizer, lastFwd, stepsDone, syncsDone, syncsSinceStep>>
    /\ UNCHANGED tdVars
    /\ UNCHANGED auxVars

\* Experiment.init_optimizer, after Experiment.init_model built the policy
InitOptimizer ==
    /\ self.cls # "none"
    /\ expOptimizer = {}
    /\ expOptimizer' = trainable_params(self)
    /\ lastOp' = "init_optimizer"
    /\ UNCHANGED <<self, params, agentOptimizer, lastFwd, stepsDone, syncsDone,
                   syncsSinceStep>>
    /\ UNCHANGED tdVars
    /\ UNCHANGED auxVars

\* a call of Agent.hard_sync_targets
HardSyncTargets ==
    /\ self.cls # "none"
    /\ params' = hard_sync_targets(params, self)
    /\ lastOp' = "hard_sync_targets"
    /\ UNCHANGED <<self, agentOptimizer, expOptimizer, lastFwd, stepsDone, syncsDone,
                   syncsSinceStep>>
    /\ UNCHANGED tdVars
    /\ UNCHANGED auxVars

\* a call of Agent.soft_sync_targets
SoftSyncTargets ==
    /\ self.cls # "none"
    /\ syncsDone < MaxSoftSyncs
    /\ params' = soft_sync_targets(params, self)
    /\ syncsDone' = syncsDone + 1
    /\ syncsSinceStep' = syncsSinceStep + 1
    /\ lastOp' = "soft_sync_targets"
    /\ UNCHANGED <<self, agentOptimizer, expOptimizer, lastFwd, stepsDone>>
    /\ UNCHANGED tdVars
    /\ UNCHANGED auxVars

\* Experiment.train_step: zero_grad, compute_loss, backward, clip_grad_norm_,
\* soft_sync_targets, optimizer.step
TrainStep ==
    /\ self.cls # "none"
    /\ expOptimizer # {}
    /\ stepsDone < MaxSteps
    /\ syncsDone < MaxSoftSyncs
    /\ lastFwd' = ForwardReads("train_step")
    /\ \E d \in Deltas :
        params' = optimizer_step(soft_sync_targets(params, self), expOptimizer, d)
    /\ syncsDone' = syncsDone + 1
    /\ syncsSinceStep' = 0
    /\ stepsDone' = stepsDone + 1
    /\ lastOp' = "train_step"
    /\ UNCHANGED <<self, agentOptimizer, expOptimizer>>
    /\ UNCHANGED tdVars
    /\ UNCHANGED auxVars

\* Agent.update: zero_grad, _compute_loss, backward, optimizer.step, lr_schedule.step
Update ==
    /\ self.cls # "none"
    /\ stepsDone < MaxSteps
    /\ lastFwd' = ForwardReads("update")
    /\ \E d \in Deltas :
        params' = optimizer_step(params, agentOptimizer, d)
    /\ syncsSinceStep' = 0
    /\ stepsDone' = stepsDone + 1
    /\ lastOp' = "update"
    /\ UNCHANGED <<self, agentOptimizer, expOptimizer, syncsDone>>
    /\ UNCHANGED tdVars
    /\ UNCHANGED auxVars

Next ==
    \/ AgentInit
    \/ MultiTaskAgentInit
    \/ InitOptimizer
    \/ HardSyncTargets
    \/ SoftSyncTargets
    \/ TrainStep
    \/ Update

Spec == Init /\ [][Next]_vars

(***************************************************************************)
(* Claims about target synchronisation, checked under Spec.                *)
(***************************************************************************)
Built == self.cls # "none"
OnlineCritics == params[self.critics]
TargetCritics == params[self.target_critics]
MaximizedCritics == params[self.maximized_critics]
OnlineActor == params[self.actor]
TargetActor == params[self.target_actor]

\* C1: after Agent.__init__, after MultiTaskAgent.__init__ and after any call of
\* hard_sync_targets, every parameter of target_critics and of maximized_critics
\* equals the corresponding parameter of the online critics, and every parameter
\* of target_actor equals the corresponding parameter of the online actor.
C1_HardSyncCopiesOnline ==
    lastOp \in {"Agent.__init__", "MultiTaskAgent.__init__", "hard_sync_targets"} =>
        /\ \A i \in ParamIdx : TargetCritics[i] = OnlineCritics[i]
        /\ \A i \in ParamIdx : MaximizedCritics[i] = OnlineCritics[i]
        /\ \A i \in ParamIdx : TargetActor[i] = OnlineActor[i]

\* C1 witness: a hard sync of a MultiTaskAgent whose online networks have been
\* trained away from their initial values.
C1_Witness ==
    /\ lastOp = "hard_sync_targets"
    /\ self.cls = "MultiTaskAgent"
    /\ stepsDone > 0
    /\ syncsDone > 0

\* C2: one soft_sync_targets call with rate tau sets every parameter of
\* target_critics and of target_actor to (1 - tau) * old_target + tau * online,
\* with the values of just before the call (also for the call inside train_step,
\* which comes before the optimizer step).
C2_SoftSyncIsEma ==
    [][lastOp' \in {"soft_sync_targets", "train_step"} =>
        \A i \in ParamIdx :
            /\ params'[self.target_critics][i] * TauDen =
                 (TauDen - self.tau) * TargetCritics[i] + self.tau * OnlineCritics[i]
            /\ params'[self.target_actor][i] * TauDen =
                 (TauDen - self.tau) * TargetActor[i] + self.tau * OnlineActor[i]]_vars

\* C2 witness: a soft sync has left the targets strictly between their old values
\* and the online values.
C2_Witness ==
    /\ lastOp = "soft_sync_targets"
    /\ stepsDone > 0
    /\ \E i \in ParamIdx : TargetCritics[i] # OnlineCritics[i]
    /\ \E i \in ParamIdx : TargetActor[i] # OnlineActor[i]

\* C3: at every point where a training forward pass evaluates maximized_critics,
\* each of its parameters equals the corresponding online critics parameter.
C3_MaximizedMirrorsOnline ==
    lastFwd.op # "none" =>
        \A i \in ParamIdx : lastFwd.maximized[i] = lastFwd.online[i]

\* C4: each optimizer.step() is followed by exactly one soft_sync_targets call
\* before the next loss computation.
C4_SyncAfterEveryStep ==
    (lastFwd.op # "none" /\ lastFwd.stepsDone > 0) => lastFwd.syncsSinceStep = 1

\* C5: hard_sync_targets and soft_sync_targets leave every parameter of the online
\* actor, the online critics and the two encoders unchanged, also inside
\* train_step, where the online parameters move only by the optimizer's update.
C5_SyncLeavesOnlineAlone ==
    [][/\ lastOp' \in {"hard_sync_targets", "soft_sync_targets"} =>
            \A o \in trainable_params(self) : params'[o] = params[o]
       /\ lastOp' = "train_step" =>
            \E d \in Deltas : \A o \in trainable_params(self) :
                \A i \in ParamIdx : params'[o][i] = params[o][i] + d * Scale]_vars

\* C5 witness: a sync ran while targets and maximized copy differed from the
\* online networks, so a copy in the wrong direction would have shown.
C5_Witness ==
    /\ lastOp = "soft_sync_targets"
    /\ \E i \in ParamIdx : TargetCritics[i] # OnlineCritics[i]
    /\ \E i \in ParamIdx : TargetActor[i] # OnlineActor[i]
    /\ lastFwd.op = "train_step"
    /\ \E i \in ParamIdx : lastFwd.maximized[i] # OnlineCritics[i]

(***************************************************************************)
(* SpecTD: the TD target of Agent.forward and MultiTaskAgent.forward.      *)
(*                                                                         *)
(* One trajectory (B = 1) of SeqLen timesteps, hence T = SeqLen - 1        *)
(* transitions, NumCritics critics and the discount factors Gammas.        *)
(* Rewards, dones, the valid length, the critics' outputs and the random   *)
(* subset are drawn; the forward pass is computed as the code computes it. *)
(***************************************************************************)
SeqLen == 3
NumCritics == 2
MaxQ == 1

\* Agent.__init__: reward_multiplier
reward_multiplier == 10
\* the discount factors, as numerators over GammaDen; the last is the primary one
GammaDen == 10
Gammas == <<1, 9>>
\* loading.MAGIC_PAD_VAL, the padding sentinel
MAGIC_PAD_VAL == 4

RECURSIVE Fact(_)
Fact(n) == IF n <= 1 THEN 1 ELSE n * Fact(n - 1)

\* one whole unit of value, in the fixed-point representation of TD values
TDUnit == GammaDen * Fact(NumCritics)

TimeIdx == 1 .. (SeqLen - 1)
StateIdx == 1 .. SeqLen
CriticIdx == 1 .. NumCritics
GammaIdx == 1 .. Len(Gammas)
QVals == 0 .. MaxQ
OnlineCoeffs == {0, 1}

RECURSIVE SumSeq(_)
SumSeq(q) == IF q = <<>> THEN 0 ELSE q[1] + SumSeq(Tail(q))

RECURSIVE MinSeq(_)
MinSeq(q) ==
    IF Len(q) = 1 THEN q[1]
    ELSE LET m == MinSeq(Tail(q)) IN IF q[1] < m THEN q[1] ELSE m

RECURSIVE ISqrtFrom(_, _)
ISqrtFrom(n, k) == IF (k + 1) * (k + 1) > n THEN k ELSE ISqrtFrom(n, k + 1)
ISqrt(n) == IF n <= 0 THEN 0 ELSE ISqrtFrom(n, 0)

\* a batch as the collate function pads it: len valid timesteps, then padding
MakeBatch(rews, dones, len) ==
    [rews |-> rews, dones |-> dones,
     rl2s |-> [l \in StateIdx |->
                 IF l <= len THEN <<(IF l = 1 THEN 1 ELSE 0), l - 1>>
                 ELSE <<MAGIC_PAD_VAL, MAGIC_PAD_VAL>>]]

\* the batches drawn: a reward at every other step, the episode's end (done) at one
\* step or at none, any valid length
Batches ==
    {MakeBatch([t \in TimeIdx |-> t % 2],
               [t \in TimeIdx |-> IF t = last THEN 1 ELSE 0], len) :
        last \in 0 .. (SeqLen - 1), len \in StateIdx}

\* state_mask = ~((batch.rl2s == pad_val).all(-1))
state_mask(b) ==
    [l \in StateIdx |->
        IF \A j \in DOMAIN b.rl2s[l] : b.rl2s[l][j] = MAGIC_PAD_VAL THEN 0 ELSE 1]

\* (mutant) the critic mask is taken from the first L-1 timesteps
critic_mask_unshifted(b) ==
    [t \in TimeIdx |-> [c \in CriticIdx |-> [g \in GammaIdx |-> state_mask(b)[t]]]]

\* critic_mask = repeat(state_mask[:, 1:, ...], "b l 1 -> b l C G 1")
critic_mask(b) ==
    [t \in TimeIdx |-> [c \in CriticIdx |-> [g \in GammaIdx |-> state_mask(b)[t + 1]]]]

\* critic_mask.all(2, keepdim=True)
mask_all_critics(m) ==
    [t \in TimeIdx |-> [g \in GammaIdx |->
        IF \A c \in CriticIdx : m[t][c][g] # 0 THEN 1 ELSE 0]]

(* PopArtLayer (nets/actor_critic.py): per gamma a running mean mu and a running
   second moment nu, in whole units; sigma = sqrt(nu - mu^2), at least 1. *)
PopArtSigma(st) ==
    LET s == ISqrt(st.nu - st.mu * st.mu) IN IF s < 1 THEN 1 ELSE s

\* popart(x, normalized=False): de-normalized value = normalized value * sigma + mu
popart_denormalize(pa, g, x) == (x * PopArtSigma(pa.stats[g]) + pa.stats[g].mu) * TDUnit

\* popart.normalize_values(v) = (v - mu) / sigma, kept as a fraction num / den
normalize_values(pa, g, v) ==
    [num |-> v - pa.stats[g].mu * TDUnit, den |-> PopArtSigma(pa.stats[g]) * TDUnit]

\* popart.update_stats(val, mask): the running moments move half way to the masked
\* moments of the batch; a gamma slice with no valid entry is left as it is
update_stats(pa, val, mask) ==
    LET OneGamma(g) ==
            LET ts == {t \in TimeIdx : mask[t][g] # 0}
                n == Cardinality(ts)
                ordered == [t \in TimeIdx |-> IF t \in ts THEN val[t][g] ELSE 0]
                squares == [t \in TimeIdx |-> ordered[t] * ordered[t]]
                mean == SumSeq(ordered) \div (n * TDUnit)
                sqmean == SumSeq(squares) \div (n * TDUnit * TDUnit)
            IN  IF n = 0 THEN pa.stats[g]
                ELSE [mu |-> (pa.stats[g].mu + mean) \div 2,
                      nu |-> (pa.stats[g].nu + sqmean) \div 2]
    IN  [stats |-> [g \in GammaIdx |-> OneGamma(g)], t |-> pa.t + 1]

FreshPopArt == [stats |-> [g \in GammaIdx |-> [mu |-> 0, nu |-> 1]], t |-> 0]
TrainedPopArt == [stats |-> [g \in GammaIdx |-> [mu |-> 2, nu |-> 8]], t |-> 1]

\* (mutant) the bootstrap term is not cut at the end of an episode
ensemble_td_target_no_done(r, d, q, g) == r + (Gammas[g] * q) \div GammaDen

\* ensemble_td_target = r + gamma * (1.0 - d) * q_targ_sp_ap_gp
ensemble_td_target(r, d, q, g) == r + (Gammas[g] * (1 - d) * q) \div GammaDen

\* torch.randint(low=0, high=C, size=(B, L - 1, num_critics_td, G, 1)): one critic
\* index per (time, draw, gamma) element, drawn with replacement
randint(n) == [TimeIdx -> [1 .. n -> [GammaIdx -> CriticIdx]]]

\* torch.take_along_dim(ensemble_td_target, random_subset, dim=2)
take_along_dim(ens, subset) ==
    [t \in TimeIdx |-> [k \in DOMAIN subset[t] |-> [g \in GammaIdx |->
        ens[t][subset[t][k][g]][g]]]]

\* td_target_rand.min(2, keepdims=True).values
min_over_critics(x) ==
    [t \in TimeIdx |-> [g \in GammaIdx |->
        MinSeq([k \in DOMAIN x[t] |-> x[t][k][g]])]]

\* td_target_rand.mean(2, keepdims=True)
mean_over_critics(x) ==
    [t \in TimeIdx |-> [g \in GammaIdx |->
        SumSeq([k \in DOMAIN x[t] |-> x[t][k][g]]) \div Len(x[t])]]

\* (mutant) the mean is taken whatever the online coefficient
agent_td_aggregate_mean(x, online_coeff) == mean_over_critics(x)

\* Agent.forward: clipped double q when online_coeff > 0, the mean otherwise
agent_td_aggregate(x, online_coeff) ==
    IF online_coeff > 0 THEN min_over_critics(x) ELSE mean_over_critics(x)

\* MultiTaskAgent.forward: td_target = td_target_rand.mean(2, keepdims=True)
multitask_td_aggregate(x, online_coeff) == mean_over_critics(x)

\* r = reward_multiplier * batch.rews, d = batch.dones
scaled_rewards(b) == [t \in TimeIdx |-> reward_multiplier * b.rews[t] * TDUnit]

\* `if not self.fake_filter or self.online_coeff > 0`
ComputesTD(c) == ~c.fake_filter \/ c.online_coeff > 0

\* q_targ_sp_ap_gp = popart(target_critics(s', a'), normalized=False)
agent_q_targ(pa, qraw) ==
    [t \in TimeIdx |-> [k \in CriticIdx |-> [g \in GammaIdx |->
        popart_denormalize(pa, g, qraw[k])]]]

\* q_targ_sp_ap_gp = target_critics.bin_dist_to_raw_vals(target_critics(s', a'))
multitask_q_targ(qraw) ==
    [t \in TimeIdx |-> [k \in CriticIdx |-> [g \in GammaIdx |-> qraw[k] * TDUnit]]]

\* the ensemble of TD targets, (B, L - 1, C, G, 1)
ensemble_td_targets(b, q_targ) ==
    [t \in TimeIdx |-> [k \in CriticIdx |-> [g \in GammaIdx |->
        ensemble_td_target(scaled_rewards(b)[t], b.dones[t], q_targ[t][k][g], g)]]]

\* td_target_norm = popart.normalize_values(td_target)
td_target_norm(pa, td_target) ==
    [t \in TimeIdx |-> [g \in GammaIdx |-> normalize_values(pa, g, td_target[t][g])]]

\* the forward pass of a configuration that computes no TD target
NoTD(op, pa) == [op |-> op, critic_loss |-> "None", popart_before |-> pa]

TDInit ==
    /\ SyncInit
    /\ cfg \in [cls : {"Agent", "MultiTaskAgent"},
                online_coeff : OnlineCoeffs,
                fake_filter : BOOLEAN,
                num_critics : {NumCritics},
                num_critics_td : 1 .. NumCritics]
    /\ batch \in Batches
    /\ popart \in {FreshPopArt, TrainedPopArt}
    /\ td = [op |-> "none"]
    /\ AuxIdle

\* Agent.forward(batch): steps 3 to 5, in the order of the code
AgentForward ==
    /\ cfg.cls = "Agent"
    /\ td.op = "none"
    /\ \/ /\ ComputesTD(cfg)
          /\ \E qraw \in [CriticIdx -> QVals],
                random_subset \in randint(cfg.num_critics_td) :
             \E q_targ \in {agent_q_targ(popart, qraw)} :
             \E ens \in {ensemble_td_targets(batch, q_targ)} :
             \E td_target \in {agent_td_aggregate(take_along_dim(ens, random_subset),
                                                  cfg.online_coeff)} :
             \E pa2 \in {update_stats(popart, td_target,
                                      mask_all_critics(critic_mask(batch)))} :
                /\ popart' = pa2
                /\ td' = [op |-> "Agent.forward", critic_loss |-> "tensor",
                          popart_before |-> popart, qraw |-> qraw,
                          random_subset |-> random_subset,
                          q_targ_sp_ap_gp |-> q_targ, ensemble_td_target |-> ens,
                          td_target |-> td_target,
                          td_target_norm |-> td_target_norm(pa2, td_target)]
       \/ /\ ~ComputesTD(cfg)
          /\ td' = NoTD("Agent.forward", popart)
          /\ popart' = popart
    /\ UNCHANGED <<cfg, batch>>
    /\ UNCHANGED syncVars
    /\ UNCHANGED auxVars

\* MultiTaskAgent.forward(batch): step 4, in the order of the code
MultiTaskAgentForward ==
    /\ cfg.cls = "MultiTaskAgent"
    /\ td.op = "none"
    /\ \/ /\ ComputesTD(cfg)
          /\ \E qraw \in [CriticIdx -> QVals],
                random_subset \in randint(cfg.num_critics_td) :
             \E q_targ \in {multitask_q_targ(qraw)} :
             \E ens \in {ensemble_td_targets(batch, q_targ)} :
             \E td_target \in {multitask_td_aggregate(take_along_dim(ens, random_subset),
                                                      cfg.online_coeff)} :
             \E pa2 \in {update_stats(popart, td_target,
                                      mask_all_critics(critic_mask(batch)))} :
                /\ popart' = pa2
                /\ td' = [op |-> "MultiTaskAgent.forward", critic_loss |-> "tensor",
                          popart_before |-> popart, qraw |-> qraw,
                          random_subset |-> random_subset,
                          q_targ_sp_ap_gp |-> q_targ, ensemble_td_target |-> ens,
                          td_target |-> td_target]
       \/ /\ ~ComputesTD(cfg)
          /\ td' = NoTD("MultiTaskAgent.forward", popart)
          /\ popart' = popart
    /\ UNCHANGED <<cfg, batch>>
    /\ UNCHANGED syncVars
    /\ UNCHANGED auxVars

TDNext == AgentForward \/ MultiTaskAgentForward

SpecTD == TDInit /\ [][TDNext]_vars

(***************************************************************************)
(* Claims about the TD target, checked under SpecTD.                       *)
(***************************************************************************)
TrainsCritic(op) == td.op = op /\ td.critic_loss = "tensor"

\* the targets of the critics drawn for element (t, g), in the order drawn
DrawnTargets(t, g) ==
    [k \in DOMAIN td.random_subset[t] |->
        td.ensemble_td_target[t][td.random_subset[t][k][g]][g]]

\* the targets of all critics for element (t, g)
AllTargets(t, g) == [k \in CriticIdx |-> td.ensemble_td_target[t][k][g]]

IsMinOf(v, q) == (\E k \in DOMAIN q : q[k] = v) /\ (\A k \in DOMAIN q : v <= q[k])
IsMeanOf(v, q) == v * Len(q) = SumSeq(q)

AggregatesDrawn ==
    \A t \in TimeIdx, g \in GammaIdx :
        IF cfg.online_coeff > 0
        THEN IsMinOf(td.td_target[t][g], DrawnTargets(t, g))
        ELSE IsMeanOf(td.td_target[t][g], DrawnTargets(t, g))

\* C6: in Agent.forward the TD target of each (time, gamma) element is the minimum
\* of the num_critics_td drawn ensemble targets when online_coeff > 0 and their
\* mean when online_coeff <= 0.
C6_AgentAggregatesMinOrMean == TrainsCritic("Agent.forward") => AggregatesDrawn

\* C6 witness: Agent.forward with online_coeff > 0 drew two critics whose targets
\* differ at a step, so that minimum and mean differ.
C6_Witness ==
    /\ TrainsCritic("Agent.forward")
    /\ cfg.online_coeff > 0
    /\ \E t \in TimeIdx, g \in GammaIdx :
        /\ ~IsMeanOf(td.td_target[t][g], DrawnTargets(t, g))
        /\ \E k \in DOMAIN DrawnTargets(t, g) :
            DrawnTargets(t, g)[k] > td.td_target[t][g]

\* C7: in MultiTaskAgent.forward the TD target of each (time, gamma) element is the
\* minimum of the drawn ensemble targets when online_coeff > 0 and their mean
\* otherwise.
C7_MultiTaskAggregatesMinOrMean ==
    TrainsCritic("MultiTaskAgent.forward") => AggregatesDrawn

\* C8: with num_critics_td = num_critics, for every draw of the random subset the
\* aggregated TD target of Agent.forward is the minimum over the targets of all
\* critics when online_coeff > 0, and the mean over all critics when it is 0.
C8_FullSubsetAggregatesAllCritics ==
    (TrainsCritic("Agent.forward") /\ cfg.num_critics_td = cfg.num_critics) =>
        \A t \in TimeIdx, g \in GammaIdx :
            IF cfg.online_coeff > 0
            THEN IsMinOf(td.td_target[t][g], AllTargets(t, g))
            ELSE IsMeanOf(td.td_target[t][g], AllTargets(t, g))

\* C9: every element of the ensemble TD target equals
\* reward_multiplier * reward + gamma_g * (1 - done) * Q_target(s', a'); when
\* done = 1 it equals reward_multiplier * reward whatever the target critics say.
C9_EnsembleTargetFormula ==
    (td.op # "none" /\ td.critic_loss = "tensor") =>
        \A t \in TimeIdx, k \in CriticIdx, g \in GammaIdx :
            /\ td.ensemble_td_target[t][k][g] * GammaDen =
                 reward_multiplier * batch.rews[t] * TDUnit * GammaDen
                 + Gammas[g] * (1 - batch.dones[t]) * td.q_targ_sp_ap_gp[t][k][g]
            /\ batch.dones[t] = 1 =>
                 td.ensemble_td_target[t][k][g] =
                    reward_multiplier * batch.rews[t] * TDUnit

\* C9 witness: a forward pass over a batch in which an episode ends at a step with
\* a reward while the target critics predict a non-zero value there.
C9_Witness ==
    /\ td.op # "none"
    /\ td.critic_loss = "tensor"
    /\ \E t \in TimeIdx, k \in CriticIdx, g \in GammaIdx :
        /\ batch.dones[t] = 1
        /\ batch.rews[t] # 0
        /\ td.q_targ_sp_ap_gp[t][k][g] # 0
    /\ \E t \in TimeIdx : batch.dones[t] = 0

ValidTransition(t) == state_mask(batch)[t + 1] = 1

\* C10: an Agent.forward call that trains the critic calls popart.update_stats
\* exactly once: after the target critics' outputs were de-normalized (with the
\* statistics of before the call), with the aggregated TD target under the mask of
\* the valid transitions, whatever the target at padded steps is, and before the
\* target is normalized (with the updated statistics).
C10_PopArtUpdatedOnceInOrder ==
    TrainsCritic("Agent.forward") =>
        /\ popart.t = td.popart_before.t + 1
        /\ \A t \in TimeIdx, k \in CriticIdx, g \in GammaIdx :
            td.q_targ_sp_ap_gp[t][k][g] =
                popart_denormalize(td.popart_before, g, td.qraw[k])
        /\ popart =
            update_stats(td.popart_before,
                [t \in TimeIdx |-> [g \in GammaIdx |->
                    IF ValidTransition(t) THEN td.td_target[t][g] ELSE 0]],
                [t \in TimeIdx |-> [g \in GammaIdx |->
                    IF ValidTransition(t) THEN 1 ELSE 0]])
        /\ \A t \in TimeIdx, g \in GammaIdx :
            td.td_target_norm[t][g] = normalize_values(popart, g, td.td_target[t][g])

\* C10 witness: the batch has valid and padded transitions, the padded ones with a
\* non-zero target, and the update moved the statistics.
C10_Witness ==
    /\ TrainsCritic("Agent.forward")
    /\ \E t \in TimeIdx : ValidTransition(t)
    /\ \E t \in TimeIdx, g \in GammaIdx : ~ValidTransition(t) /\ td.td_target[t][g] # 0
    /\ popart.stats # td.popart_before.stats

(***************************************************************************)
(* SpecLoss: the masked losses of Experiment.compute_loss and of           *)
(* Agent._compute_loss.  Two engines with the same configuration run side  *)
(* by side; the first batch of the second engine may differ from the first *)
(* engine's in the values stored at padded timesteps.  The networks are    *)
(* opaque: the stand-in for a loss element is the sum of the inputs that   *)
(* the element is computed from.                                           *)
(***************************************************************************)
NumTraj == 2
MaxLossCalls == 2

TrajIdx == 1 .. NumTraj
RunIdx == 1 .. 2
\* the first n values of f as a sequence, each computed once
RECURSIVE SeqOf(_, _)
SeqOf(f, n) == IF n = 0 THEN <<>> ELSE Append(SeqOf(f, n - 1), f[n])

\* a tensor is the sequence of its elements, the last dimension running fastest

\* the sum of the first n elements of x
RECURSIVE SumTo(_, _)
SumTo(x, n) == IF n = 0 THEN 0 ELSE x[n] + SumTo(x, n - 1)

\* x.sum()
TensorSum(x) == SumTo(x, Len(x))

\* the number of elements of x
TensorSize(x) == Len(x)

\* mask * x, element by element
TensorMul(mask, x) == SeqOf([i \in DOMAIN x |-> mask[i] * x[i]], Len(x))

\* the place of element (b, t, g) of a tensor of shape (B, L - 1, G, 1)
ActorAt(b, t, g) == ((b - 1) * (SeqLen - 1) + (t - 1)) * Len(Gammas) + g

\* the place of element (b, t, k, g) of a tensor of shape (B, L - 1, C, G, 1)
CriticAt(b, t, k, g) ==
    (((b - 1) * (SeqLen - 1) + (t - 1)) * NumCritics + (k - 1)) * Len(Gammas) + g

\* the tensor of shape (B, L - 1, G, 1) whose elements are f[b][t][g]
ActorTensor(f) ==
    LET G == Len(Gammas)
        n == NumTraj * (SeqLen - 1) * G
    IN  SeqOf([i \in 1 .. n |->
                f[((i - 1) \div ((SeqLen - 1) * G)) + 1]
                 [(((i - 1) \div G) % (SeqLen - 1)) + 1]
                 [((i - 1) % G) + 1]], n)

\* the tensor of shape (B, L - 1, C, G, 1) whose elements are f[b][t][k][g]
CriticTensor(f) ==
    LET G == Len(Gammas)
        n == NumTraj * (SeqLen - 1) * NumCritics * G
    IN  SeqOf([i \in 1 .. n |->
                f[((i - 1) \div ((SeqLen - 1) * NumCritics * G)) + 1]
                 [(((i - 1) \div (NumCritics * G)) % (SeqLen - 1)) + 1]
                 [(((i - 1) \div G) % NumCritics) + 1]
                 [((i - 1) % G) + 1]], n)

\* one trajectory of len valid timesteps as the collate function pads it to L
\* timesteps and L - 1 actions, rewards and dones
MakeTraj(b, len) ==
    [obs |-> SeqOf([l \in StateIdx |->
                      IF l <= len THEN (b + l) % 3 ELSE MAGIC_PAD_VAL], SeqLen),
     actions |-> SeqOf([t \in TimeIdx |->
                      IF t < len THEN (b + t) % 2 ELSE MAGIC_PAD_VAL], SeqLen - 1),
     rews |-> SeqOf([t \in TimeIdx |->
                      IF t < len THEN t % 2 ELSE MAGIC_PAD_VAL], SeqLen - 1),
     dones |-> SeqOf([t \in TimeIdx |->
                      IF t + 1 = len THEN 1
                      ELSE IF t < len THEN 0 ELSE MAGIC_PAD_VAL], SeqLen - 1),
     rl2s |-> SeqOf(MakeBatch(<<>>, <<>>, len).rl2s, SeqLen)]

\* the batches drawn: every combination of valid lengths, 0 for a fully padded
\* trajectory
LossBatches ==
    {SeqOf([b \in TrajIdx |-> MakeTraj(b, lens[b])], NumTraj) :
        lens \in [TrajIdx -> 0 .. SeqLen]}
FullBatch == SeqOf([b \in TrajIdx |-> MakeTraj(b, SeqLen)], NumTraj)

BatchFields == {"obs", "actions", "rews", "dones"}

\* the (field, trajectory) pairs of a batch that hold values of padded timesteps
PaddedPlaces(bt) ==
    {fb \in BatchFields \X TrajIdx :
        \E i \in DOMAIN bt[fb[2]][fb[1]] : state_mask(bt[fb[2]])[i] = 0}

\* the batch with other values stored at the padded timesteps of one field of one
\* trajectory
Perturb(bt, fb) ==
    [bt EXCEPT ![fb[2]][fb[1]] =
        SeqOf([i \in DOMAIN @ |->
                 IF state_mask(bt[fb[2]])[i] = 0 THEN MAGIC_PAD_VAL + 1 ELSE @[i]],
              Len(@))]

\* InputNorm(...): the running moments of the rows handed to update_stats
FreshInputNorm == [n |-> 0, total |-> 0]

\* self.in_norm.update_stats(flat_obs_rl2): every row of the (B, L) batch
in_norm_update_stats(st, bt) ==
    [n |-> st.n + NumTraj * SeqLen,
     total |-> st.total
               + SumSeq([b \in TrajIdx |-> SumSeq(bt[b].obs)])]

\* self.in_norm(flat_obs_rl2): x minus the running mean, in units of 1/n
in_norm(st, x, skip) == IF skip \/ st.n = 0 THEN x ELSE x * st.n - st.total

\* FFTstepEncoder.inner_forward: the statistics after the call
tstep_encoder_stats(st, bt, c, training) ==
    IF training /\ c.normalize_inputs THEN in_norm_update_stats(st, bt) ELSE st

\* FFTstepEncoder.inner_forward: the embedding of timestep l of trajectory b
tstep_encoder(st, bt, c, b, l) == in_norm(st, bt[b].obs[l], ~c.normalize_inputs)

\* the causal sequence model: s_rep at l is computed from the timesteps up to l
RECURSIVE traj_encoder(_, _)
traj_encoder(o, l) ==
    IF l = 0 THEN <<>>
    ELSE LET before == traj_encoder(o, l - 1)
         IN  Append(before, (IF l = 1 THEN 0 ELSE before[l - 1]) + o[l])

\* o = self.tstep_encoder(...); s_rep = self.traj_encoder(o): (B, L, D_emb)
s_rep(st, bt, c) ==
    SeqOf([b \in TrajIdx |->
             traj_encoder([l \in StateIdx |-> tstep_encoder(st, bt, c, b, l)], SeqLen)],
          NumTraj)

\* forward(batch): the loss tensors (B, L - 1, G, 1) and (B, L - 1, C, G, 1), the
\* critic loss None when no TD target is computed
forward_losses(s, bt, c) ==
    [actor_loss |->
        ActorTensor([b \in TrajIdx |-> [t \in TimeIdx |-> [g \in GammaIdx |->
            s[b][t] + bt[b].actions[t] + g]]]),
     critic_loss |->
        IF ComputesTD(c)
        THEN [kind |-> "tensor",
              elems |-> CriticTensor([b \in TrajIdx |-> [t \in TimeIdx |->
                [k \in CriticIdx |-> [g \in GammaIdx |->
                    s[b][t] + s[b][t + 1]
                    + bt[b].actions[t] + bt[b].rews[t] + bt[b].dones[t] + k + g]]]])]
        ELSE [kind |-> "None"]]

\* state_mask over the batch, (B, L, 1)
batch_state_mask(bt) ==
    SeqOf([b \in TrajIdx |-> SeqOf(state_mask(bt[b]), SeqLen)], NumTraj)

\* critic_state_mask = repeat(state_mask[:, 1:, ...], "B L 1 -> B L C G 1")
critic_state_mask(m) ==
    CriticTensor([b \in TrajIdx |-> [t \in TimeIdx |->
        [k \in CriticIdx |-> [g \in GammaIdx |-> m[b][t + 1]]]]])

\* actor_state_mask = repeat(state_mask[:, :-1, ...], "B L 1 -> B L G 1")
actor_state_mask(m) ==
    ActorTensor([b \in TrajIdx |-> [t \in TimeIdx |-> [g \in GammaIdx |-> m[b][t]]]])

\* a / b of two tensors' sums in floating point: 0 / 0 is NaN
float_div(num, den) ==
    IF den # 0 THEN [kind |-> "tensor", num |-> num, den |-> den]
    ELSE IF num = 0 THEN [kind |-> "nan"] ELSE [kind |-> "inf"]

\* (mutant) a plain batch average
masked_mean_plain(x, mask) ==
    float_div(TensorSum(x), TensorSize(x))

\* (mask * x).sum() / mask.sum()
masked_mean(x, mask) ==
    float_div(TensorSum(TensorMul(mask, x)), TensorSum(mask))

\* utils.masked_avg(x, mask): the masked mean, guarded against an empty mask
masked_avg(x, mask) ==
    IF TensorSum(mask) = 0
    THEN [kind |-> "tensor", num |-> 0, den |-> 1]
    ELSE masked_mean(x, mask)

\* masked_critic_loss = 0.0 when forward returned no critic loss
NoCriticLoss == [kind |-> "float", num |-> 0, den |-> 1]

\* Experiment.compute_loss(batch): the mapping returned
compute_loss(fl, state_mask_) ==
    [critic_loss |-> IF fl.critic_loss.kind = "tensor"
                     THEN masked_mean(fl.critic_loss.elems, critic_state_mask(state_mask_))
                     ELSE NoCriticLoss,
     actor_loss |-> masked_mean(fl.actor_loss, actor_state_mask(state_mask_)),
     mask |-> state_mask_]

\* Agent._compute_loss(batch): the mapping returned
_compute_loss(fl, state_mask_) ==
    [critic_loss |-> IF fl.critic_loss.kind = "tensor"
                     THEN masked_avg(fl.critic_loss.elems, critic_state_mask(state_mask_))
                     ELSE NoCriticLoss,
     actor_loss |-> masked_avg(fl.actor_loss, actor_state_mask(state_mask_)),
     mask |-> state_mask_]

LossCfgs ==
    [driver : {"Agent", "Experiment"}, fake_filter : BOOLEAN,
     online_coeff : OnlineCoeffs, normalize_inputs : BOOLEAN]

LossInit ==
    /\ SyncInit /\ TDIdle /\ MoreIdle
    /\ CtorIdle /\ DpgIdle /\ ActIdle /\ RolloutIdle /\ EpochIdle
    /\ loss \in [op : {"init"}, cfg : LossCfgs, calls : {0},
                 in_norm : {<<FreshInputNorm, FreshInputNorm>>}]

\* the pairs of batches handed to the two engines: the first pair differs at most
\* at the padded timesteps of one field, each later pair is one batch without padding
BatchPairs ==
    IF loss.calls = 0
    THEN {<<bt, bt>> : bt \in LossBatches}
         \cup {<<bt, Perturb(bt, place)>> :
                 <<bt, place>> \in {<<b2, p2>> \in LossBatches \X
                                        (BatchFields \X TrajIdx) :
                                        p2 \in PaddedPlaces(b2)}}
    ELSE {<<FullBatch, FullBatch>>}

\* both engines compute the loss of their batch of the pair
LossCall(op, pair, training) ==
    \E st \in {<<tstep_encoder_stats(loss.in_norm[1], pair[1], loss.cfg, training),
                  tstep_encoder_stats(loss.in_norm[2], pair[2], loss.cfg, training)>>} :
    \E s \in {<<s_rep(st[1], pair[1], loss.cfg), s_rep(st[2], pair[2], loss.cfg)>>} :
    \E fl \in {<<forward_losses(s[1], pair[1], loss.cfg),
                  forward_losses(s[2], pair[2], loss.cfg)>>} :
    \E m \in {<<batch_state_mask(pair[1]), batch_state_mask(pair[2])>>} :
    \E out \in {IF op = "Experiment.compute_loss"
                 THEN <<compute_loss(fl[1], m[1]), compute_loss(fl[2], m[2])>>
                 ELSE <<_compute_loss(fl[1], m[1]), _compute_loss(fl[2], m[2])>>} :
        loss' = [op |-> op, cfg |-> loss.cfg, calls |-> loss.calls + 1,
                 in_norm |-> st, training |-> training, batches |-> pair,
                 forward |-> fl, out |-> out]

\* Experiment.train_step / val_step: l = self.compute_loss(batch, log_step)
ExperimentComputeLoss ==
    /\ loss.op # "none"
    /\ loss.cfg.driver = "Experiment"
    /\ loss.calls < MaxLossCalls
    /\ \E pair \in BatchPairs, training \in BOOLEAN :
        /\ loss.calls = 0 => training
        /\ LossCall("Experiment.compute_loss", pair, training)
    /\ UNCHANGED <<syncVars, tdVars, moreVars, ctor, dpg, act, rollout, epoch>>

\* Agent.update: loss_dict = self._compute_loss(batch)
AgentComputeLoss ==
    /\ loss.op # "none"
    /\ loss.cfg.driver = "Agent"
    /\ loss.calls < MaxLossCalls
    /\ \E pair \in BatchPairs :
        LossCall("Agent._compute_loss", pair, TRUE)
    /\ UNCHANGED <<syncVars, tdVars, moreVars, ctor, dpg, act, rollout, epoch>>

LossNext == ExperimentComputeLoss \/ AgentComputeLoss

SpecLoss == LossInit /\ [][LossNext]_vars

(***************************************************************************)
(* Claims about the masked losses, checked under SpecLoss.                 *)
(***************************************************************************)
LossComputed == loss.op \in {"Experiment.compute_loss", "Agent._compute_loss"}

\* C11: two engines whose batches differ only in values stored at padded timesteps
\* compute the same masked actor loss and the same masked critic loss, on that
\* batch and on every later batch.
C11_PaddedValuesDoNotLeak ==
    LossComputed =>
        /\ loss.out[1].actor_loss = loss.out[2].actor_loss
        /\ loss.out[1].critic_loss = loss.out[2].critic_loss

\* the timesteps of the batch whose rl2 vector is not entirely the sentinel
ValidStates(bt) ==
    {<<b, l>> \in TrajIdx \X StateIdx :
        \E j \in DOMAIN bt[b].rl2s[l] : bt[b].rl2s[l][j] # MAGIC_PAD_VAL}
\* the transitions counted by the actor loss and by the critic loss
ValidActorSteps(bt) == {<<b, t>> \in TrajIdx \X TimeIdx : <<b, t>> \in ValidStates(bt)}
ValidCriticSteps(bt) ==
    {<<b, t>> \in TrajIdx \X TimeIdx : <<b, t + 1>> \in ValidStates(bt)}

\* C12: Experiment.compute_loss returns, for each loss, the sum of the loss over the
\* valid elements of its own mask divided by their number, so that a fully padded
\* trajectory contributes nothing to the actor loss and to the critic loss.
C12_MaskedMeanOverValidElements ==
    loss.op = "Experiment.compute_loss" =>
        \A r \in RunIdx :
            LET bt == loss.batches[r]
                fl == loss.forward[r]
                out == loss.out[r]
                va == ValidActorSteps(bt)
                vc == ValidCriticSteps(bt)
            IN  /\ va # {} =>
                    /\ out.actor_loss.num =
                         SumSeq([b \in TrajIdx |-> SumSeq([t \in TimeIdx |->
                            IF <<b, t>> \in va
                            THEN SumSeq([g \in GammaIdx |->
                                    fl.actor_loss[ActorAt(b, t, g)]])
                            ELSE 0])])
                    /\ out.actor_loss.den = Cardinality(va) * Len(Gammas)
                /\ (fl.critic_loss.kind = "tensor" /\ vc # {}) =>
                    /\ out.critic_loss.num =
                         SumSeq([b \in TrajIdx |-> SumSeq([t \in TimeIdx |->
                            IF <<b, t>> \in vc
                            THEN SumSeq([k \in CriticIdx |-> SumSeq([g \in GammaIdx |->
                                    fl.critic_loss.elems[CriticAt(b, t, k, g)]])])
                            ELSE 0])])
                    /\ out.critic_loss.den = Cardinality(vc) * NumCritics * Len(Gammas)

\* C12 witness: a batch of one fully padded and one fully valid trajectory, the
\* loss tensors not zero on the padded trajectory, and the result not the plain
\* batch average.
C12_Witness ==
    /\ loss.op = "Experiment.compute_loss"
    /\ loss.forward[1].critic_loss.kind = "tensor"
    /\ \E p, v \in TrajIdx :
        LET bt == loss.batches[1]
        IN  /\ \A l \in StateIdx : <<p, l>> \notin ValidStates(bt)
            /\ \A l \in StateIdx : <<v, l>> \in ValidStates(bt)
            /\ \E t \in TimeIdx, g \in GammaIdx :
                    loss.forward[1].actor_loss[ActorAt(p, t, g)] # 0
            /\ \E t \in TimeIdx, k \in CriticIdx, g \in GammaIdx :
                    loss.forward[1].critic_loss.elems[CriticAt(p, t, k, g)] # 0
    /\ loss.out[1].actor_loss.num # TensorSum(loss.forward[1].actor_loss)
    /\ loss.out[1].critic_loss.num # TensorSum(loss.forward[1].critic_loss.elems)

\* C13: when the actor mask or the critic mask of a batch sums to zero, the loss
\* returned for it is a number (the identity of the reduction), not NaN.
C13_EmptyMaskIsGuarded ==
    LossComputed =>
        \A r \in RunIdx :
            /\ loss.out[r].actor_loss.kind \notin {"nan", "inf"}
            /\ loss.out[r].critic_loss.kind \notin {"nan", "inf"}

\* C14: the mapping returned by one update has critic_loss None when the
\* configuration disables critic learning (fake_filter and online_coeff <= 0) and
\* a scalar otherwise, and it always holds actor_loss and mask.
C14_CriticLossNoneWhenDisabled ==
    LossComputed =>
        \A r \in RunIdx :
            /\ {"critic_loss", "actor_loss", "mask"} \subseteq DOMAIN loss.out[r]
            /\ IF loss.cfg.fake_filter /\ loss.cfg.online_coeff <= 0
               THEN loss.out[r].critic_loss.kind = "None"
               ELSE loss.out[r].critic_loss.kind \in {"tensor", "nan", "inf"}

(***************************************************************************)
(* SpecCtor: the checks Agent.__init__ makes on its arguments.             *)
(***************************************************************************)
MaxActionDim == 3

\* the type of the action_space argument; "None" is the default of the parameter
SupportedSpaces == {"Discrete", "MultiBinary", "Box"}
SpaceTypes == SupportedSpaces \cup {"MultiDiscrete", "None"}
\* the action_dim argument, NoActionDim for the default None
NoActionDim == 0
ActionDims == {NoActionDim} \cup (1 .. MaxActionDim)

CtorArgs ==
    [cls : {"Agent", "MultiTaskAgent"}, space : SpaceTypes, space_dim : 1 .. MaxActionDim,
     action_dim : ActionDims, num_critics : 1 .. NumCritics,
     num_critics_td : 1 .. (NumCritics + 1)]

\* Agent.__init__: action_dim, discrete and multibinary, or the error raised
action_space_check(a) ==
    IF a.action_dim = NoActionDim
    THEN IF a.space = "Discrete"
         THEN [outcome |-> "ok", action_dim |-> a.space_dim,
               discrete |-> TRUE, multibinary |-> FALSE]
         ELSE IF a.space = "MultiBinary"
         THEN [outcome |-> "ok", action_dim |-> a.space_dim,
               discrete |-> FALSE, multibinary |-> TRUE]
         ELSE IF a.space = "Box"
         THEN [outcome |-> "ok", action_dim |-> a.space_dim,
               discrete |-> FALSE, multibinary |-> FALSE]
         ELSE [outcome |-> "ValueError"]
    ELSE [outcome |-> "ok", action_dim |-> a.action_dim,
          discrete |-> FALSE, multibinary |-> FALSE]

\* Agent.__init__(...) as far as its argument checks: the agent built or the error
agent_init(a) ==
    LET space == action_space_check(a)
    IN  IF space.outcome # "ok" THEN [outcome |-> space.outcome]
        ELSE IF ~(a.num_critics_td <= a.num_critics)
        THEN [outcome |-> "AssertionError"]
        ELSE [outcome |-> "built", action_dim |-> space.action_dim,
              discrete |-> space.discrete, multibinary |-> space.multibinary,
              num_critics |-> a.num_critics, num_critics_td |-> a.num_critics_td]

CtorInit ==
    /\ SyncInit /\ TDIdle /\ MoreIdle
    /\ LossIdle /\ DpgIdle /\ ActIdle /\ RolloutIdle /\ EpochIdle
    /\ ctor = [op |-> "none"]

\* Agent(...)
AgentConstruct ==
    /\ ctor.op = "none"
    /\ \E a \in CtorArgs :
        /\ a.cls = "Agent"
        /\ ctor' = [op |-> "Agent.__init__", args |-> a, result |-> agent_init(a)]
    /\ UNCHANGED <<syncVars, tdVars, moreVars, loss, dpg, act, rollout, epoch>>

\* MultiTaskAgent(...): super().__init__(...) makes the checks
MultiTaskAgentConstruct ==
    /\ ctor.op = "none"
    /\ \E a \in CtorArgs :
        /\ a.cls = "MultiTaskAgent"
        /\ ctor' = [op |-> "MultiTaskAgent.__init__", args |-> a,
                    result |-> agent_init(a)]
    /\ UNCHANGED <<syncVars, tdVars, moreVars, loss, dpg, act, rollout, epoch>>

CtorNext == AgentConstruct \/ MultiTaskAgentConstruct

SpecCtor == CtorInit /\ [][CtorNext]_vars

\* C15: constructing an Agent with an action space that is not Discrete,
\* MultiBinary or Box raises an error, whatever the action_dim argument is; no
\* agent is built with an unsupported action-space type.
C15_UnsupportedActionSpaceRaises ==
    (ctor.op # "none" /\ ctor.args.space \notin SupportedSpaces) =>
        ctor.result.outcome = "ValueError"

(* ------------------------------------------------------------------------ *)
(* The whole forward pass: the calls made on the actor's distribution,       *)
(* the PopArt update, the logged statistics and the DPG assertion, in the     *)
(* order of the code.                                                         *)
(* ------------------------------------------------------------------------ *)

MaxForwardCalls == 2

\* the actor built by Agent.__init__: categorical, independent Bernoulli, or continuous
ActorKinds == {"discrete", "multibinary", "continuous"}
OfflineCoeffs == {0, 1}

\* what forward reads of the agent; actions_differentiable is the actor's own flag
DpgCfgs ==
    [cls : {"Agent", "MultiTaskAgent"},
     actor : ActorKinds,
     actions_differentiable : BOOLEAN,
     online_coeff : OnlineCoeffs,
     offline_coeff : OfflineCoeffs,
     fake_filter : BOOLEAN,
     num_critics_td : {NumCritics}]

\* the draws of torch.randint enumerated here: the same critic at every place
DpgSubsets(n) ==
    {[t \in TimeIdx |-> [k \in 1 .. n |-> [g \in GammaIdx |-> c]]] : c \in CriticIdx}

\* the target critics' outputs enumerated here: all critics agree
DpgQRaws == {[k \in CriticIdx |-> q] : q \in QVals}

\* the batches enumerated here: one valid timestep, or a full sequence ending in done
DpgBatches ==
    {MakeBatch([t \in TimeIdx |-> t % 2],
               [t \in TimeIdx |-> IF t = SeqLen - 1 THEN 1 ELSE 0], len) :
        len \in {1, SeqLen}}

\* (mutant) the action for the critics is chosen by the capability flag alone
agent_a_agent_by_capability(c) ==
    IF c.actions_differentiable THEN "rsample" ELSE "sample"

\* Agent.forward step 3: a_agent = probs / rsample() / sample()
agent_a_agent(c) ==
    IF c.actor = "discrete" THEN "probs"
    ELSE IF c.actions_differentiable THEN "rsample"
    ELSE "sample"

\* Agent.forward step 4: ap = a_prime_dist.probs if self.discrete else a_prime_dist.sample()
agent_ap(c) == IF c.actor = "discrete" THEN "probs" ELSE "sample"

\* Agent.forward step 6: assert self.actor.actions_differentiable
agent_dpg_assert(c) == c.actions_differentiable

\* MultiTaskAgent.forward step 7: assert self.actor.actions_differentiable and not self.discrete
multitask_dpg_assert(c) == c.actions_differentiable /\ c.actor # "discrete"

LogIf(cond, names) == IF cond THEN names ELSE {}

\* Agent.forward(batch, log_step): the engine state it leaves and how it ends
agent_forward(c, b, pa, log_step, qraw, subset) ==
    LET computes == ComputesTD(c)
        calls3 == <<agent_a_agent(c)>>
        calls4 == IF computes THEN Append(calls3, agent_ap(c)) ELSE calls3
        pa4 == IF computes
               THEN update_stats(pa,
                        agent_td_aggregate(
                            take_along_dim(ensemble_td_targets(b, agent_q_targ(pa, qraw)),
                                           subset),
                            c.online_coeff),
                        mask_all_critics(critic_mask(b)))
               ELSE pa
        info5 == LogIf(computes /\ log_step, {"td_stats", "popart_stats"})
        raises == c.online_coeff > 0 /\ ~agent_dpg_assert(c)
        info6 == info5 \cup LogIf(log_step, {"policy_stats"})
        calls7 == IF c.offline_coeff > 0 THEN Append(calls4, "log_prob") ELSE calls4
        info7 == info6 \cup LogIf(c.offline_coeff > 0 /\ log_step, {"filter_stats"})
    IN  IF raises
        THEN [outcome |-> "AssertionError", popart |-> pa4, update_info |-> info5,
              actor_calls |-> calls4]
        ELSE [outcome |-> "returned", popart |-> pa4, update_info |-> info7,
              actor_calls |-> calls7]

\* MultiTaskAgent.forward(batch, log_step): the engine state it leaves and how it ends
multitask_forward(c, b, pa, log_step, qraw, subset) ==
    LET computes == ComputesTD(c)
        calls4 == IF computes THEN <<"sample">> ELSE <<>>
        pa4 == IF computes
               THEN update_stats(pa,
                        multitask_td_aggregate(
                            take_along_dim(ensemble_td_targets(b, multitask_q_targ(qraw)),
                                           subset),
                            c.online_coeff),
                        mask_all_critics(critic_mask(b)))
               ELSE pa
        info5 == LogIf(computes /\ log_step, {"td_stats", "popart_stats"})
        calls6 == IF ~c.fake_filter /\ c.offline_coeff > 0
                  THEN Append(calls4, "sample") ELSE calls4
        calls6b == IF c.offline_coeff > 0 THEN Append(calls6, "log_prob") ELSE calls6
        info6 == info5 \cup LogIf(c.offline_coeff > 0 /\ log_step,
                                  {"filter_stats", "policy_stats"})
        raises == c.online_coeff > 0 /\ ~multitask_dpg_assert(c)
        calls7 == IF c.online_coeff > 0 THEN Append(calls6b, "rsample") ELSE calls6b
    IN  IF raises
        THEN [outcome |-> "AssertionError", popart |-> pa4, update_info |-> info6,
              actor_calls |-> calls6b]
        ELSE [outcome |-> "returned", popart |-> pa4, update_info |-> info6,
              actor_calls |-> calls7]

DpgInit ==
    /\ SyncInit /\ TDIdle /\ MoreIdle
    /\ LossIdle /\ CtorIdle /\ ActIdle /\ RolloutIdle /\ EpochIdle
    /\ \E c \in DpgCfgs, b \in DpgBatches, pa \in {FreshPopArt, TrainedPopArt} :
          dpg = [op |-> "none", cfg |-> c, batch |-> b, popart |-> pa,
                 update_info |-> {}, calls |-> 0]

\* one call of forward on the agent: self.update_info is emptied, then the pass runs
ForwardCall(op, out, log_step) ==
    dpg' = [op |-> op, cfg |-> dpg.cfg, batch |-> dpg.batch,
            popart |-> out.popart, update_info |-> out.update_info,
            calls |-> dpg.calls + 1,
            log_step |-> log_step,
            popart_before |-> dpg.popart,
            update_info_before |-> dpg.update_info,
            actor_calls |-> out.actor_calls,
            outcome |-> out.outcome]

AgentForwardCall ==
    /\ dpg.cfg.cls = "Agent"
    /\ dpg.calls < MaxForwardCalls
    /\ \E log_step \in BOOLEAN, qraw \in DpgQRaws,
          random_subset \in DpgSubsets(dpg.cfg.num_critics_td) :
       \E out \in {agent_forward(dpg.cfg, dpg.batch, dpg.popart, log_step, qraw,
                                 random_subset)} :
          ForwardCall("Agent.forward", out, log_step)
    /\ UNCHANGED <<syncVars, tdVars, moreVars, loss, ctor, act, rollout, epoch>>

MultiTaskAgentForwardCall ==
    /\ dpg.cfg.cls = "MultiTaskAgent"
    /\ dpg.calls < MaxForwardCalls
    /\ \E log_step \in BOOLEAN, qraw \in DpgQRaws,
          random_subset \in DpgSubsets(dpg.cfg.num_critics_td) :
       \E out \in {multitask_forward(dpg.cfg, dpg.batch, dpg.popart, log_step, qraw,
                                     random_subset)} :
          ForwardCall("MultiTaskAgent.forward", out, log_step)
    /\ UNCHANGED <<syncVars, tdVars, moreVars, loss, ctor, act, rollout, epoch>>

DpgNext == AgentForwardCall \/ MultiTaskAgentForwardCall

SpecDPG == DpgInit /\ [][DpgNext]_vars

ForwardCalled == dpg.op \in {"Agent.forward", "MultiTaskAgent.forward"}
ActorCalls == {dpg.actor_calls[i] : i \in DOMAIN dpg.actor_calls}

(* C16: no differentiable sample (rsample) is ever requested from a discrete
   actor: Agent.forward takes the probs branch for a discrete actor, and
   MultiTaskAgent.forward with a discrete actor and online_coeff > 0 fails its
   assertion before rsample is called. *)
C16_NoRsampleFromDiscreteActor ==
    (ForwardCalled /\ dpg.cfg.actor = "discrete") =>
        /\ "rsample" \notin ActorCalls
        /\ (dpg.op = "Agent.forward" => dpg.actor_calls[1] = "probs")
        /\ (dpg.op = "MultiTaskAgent.forward" /\ dpg.cfg.online_coeff > 0)
              => dpg.outcome = "AssertionError"

\* a discrete actor that reports the capability went through Agent.forward with the
\* DPG term on, and the pass returned
C16_Witness ==
    /\ dpg.op = "Agent.forward"
    /\ dpg.cfg.actor = "discrete"
    /\ dpg.cfg.actions_differentiable
    /\ dpg.cfg.online_coeff > 0
    /\ dpg.outcome = "returned"
    /\ dpg.actor_calls[1] = "probs"

(* C17: a forward call that fails the actions_differentiable assertion leaves the
   PopArt statistics and the rest of the engine state as they were before the
   call. *)
C17_FailedForwardLeavesStateAlone ==
    (ForwardCalled /\ dpg.outcome = "AssertionError") =>
        /\ dpg.popart = dpg.popart_before
        /\ dpg.update_info = dpg.update_info_before

(* ------------------------------------------------------------------------ *)
(* Agent.get_actions for a discrete action space: the action distribution of  *)
(* every (batch element, gamma), the choice of the action, the selection of   *)
(* the last gamma and the conversion to uint8.                                *)
(* ------------------------------------------------------------------------ *)

MaxNumActions == 258
UInt8Range == 256

\* the sizes of the Discrete action space that are run
ActionCounts == {2, UInt8Range, MaxNumActions}

\* the places of a distribution's peak that are run
PeakIdx(n) == {i \in {0, UInt8Range - 1, UInt8Range, n - 1} : i < n}

\* action_dists.probs of one (batch element, gamma): weight 2 at the peak, weight 1 at
\* the action after it (if any), 0 elsewhere
dist_probs(n, peak) ==
    [i \in 0 .. (n - 1) |-> IF i = peak THEN 2 ELSE IF i = peak + 1 THEN 1 ELSE 0]

\* torch.argmax(probs, dim=-1): the first index holding the largest value
argmax(p, n) ==
    LET vals == {p[i] : i \in 0 .. (n - 1)}
        largest == CHOOSE v \in vals : \A w \in vals : w <= v
        at == {i \in 0 .. (n - 1) : p[i] = largest}
    IN  CHOOSE i \in at : \A j \in at : i <= j

\* action_dists.sample(): an action of the support, picked by the random draw u
dist_sample(p, n, u) ==
    LET support == {i \in 0 .. (n - 1) : p[i] > 0}
        first == CHOOSE i \in support : \A j \in support : i <= j
        last == CHOOSE i \in support : \A j \in support : j <= i
    IN  IF u = 0 THEN first ELSE last

\* the random draws of one call: one per batch element, none when nothing is sampled
Draws(sample) == IF sample THEN [TrajIdx -> {0, 1}] ELSE {[b \in TrajIdx |-> 0]}

\* actions[..., -1, :]: the entry of the last gamma
last_gamma(x) == x[Len(Gammas)]

(* ndarray.astype(np.uint8) of a float32 array: a value the type holds is kept; the
   conversion of a value outside the type is undefined in C, and a build of numpy
   either wraps it modulo 256 or saturates it *)
UInt8Overflow == {"wrap", "saturate"}
astype_uint8(x, overflow) ==
    IF x < UInt8Range THEN x
    ELSE IF overflow = "wrap" THEN x % UInt8Range
    ELSE UInt8Range - 1

ActInit ==
    /\ SyncInit /\ TDIdle /\ MoreIdle
    /\ LossIdle /\ CtorIdle /\ DpgIdle /\ RolloutIdle /\ EpochIdle
    /\ act = [op |-> "none"]

\* Agent.get_actions(obs, goals, rl2s, seq_lengths, time_idxs, hidden_state, sample)
GetActions ==
    /\ act.op = "none"
    /\ \E n \in ActionCounts, sample \in BOOLEAN, overflow \in UInt8Overflow :
       \E peaks \in [TrajIdx -> [GammaIdx -> PeakIdx(n)]] :
       \E u \in Draws(sample) :
          /\ LET actions == [b \in TrajIdx |-> [g \in GammaIdx |->
                                IF sample
                                THEN dist_sample(dist_probs(n, peaks[b][g]), n, u[b])
                                ELSE argmax(dist_probs(n, peaks[b][g]), n)]]
             IN  act' = [op |-> "Agent.get_actions", n |-> n, sample |-> sample,
                         peaks |-> peaks,
                         actions |-> [b \in TrajIdx |->
                                        astype_uint8(last_gamma(actions[b]), overflow)]]
    /\ UNCHANGED <<syncVars, tdVars, moreVars, loss, ctor, dpg, rollout, epoch>>

ActNext == GetActions

SpecAct == ActInit /\ [][ActNext]_vars

(* C18: with sample=False, get_actions returns for every batch element the index
   of the highest-probability action of the primary gamma (the last entry of the
   gamma set), for every number of actions n, n > 256 included. *)
C18_DeterministicActionIsArgmax ==
    (act.op = "Agent.get_actions" /\ ~act.sample) =>
        \A b \in TrajIdx :
            /\ dist_probs(act.n, act.peaks[b][Len(Gammas)])[act.actions[b]] = 2
            /\ act.actions[b] = act.peaks[b][Len(Gammas)]

(* ------------------------------------------------------------------------ *)
(* Experiment.interact: the hidden state of the sequence model over the steps *)
(* of one rollout.  A hidden state holds, per parallel actor, the number of   *)
(* timesteps folded into it since it was created or reset.                    *)
(* ------------------------------------------------------------------------ *)

ParallelActors == 2
MaxTimesteps == 3

ActorIdx == 1 .. ParallelActors

NoHidden == [kind |-> "None"]
HiddenOf(h) == [kind |-> "state", h |-> h]

\* traj_encoder.init_hidden_state(parallel_actors, device)
init_hidden_state == HiddenOf([a \in ActorIdx |-> 0])

\* a hidden state handed to interact by its caller
PassedHidden == HiddenOf([a \in ActorIdx |-> 1])

\* (mutant) every actor's hidden state is reset after a step
reset_hidden_state_all(hidden_state, done) ==
    IF hidden_state.kind = "None" THEN hidden_state
    ELSE HiddenOf([a \in ActorIdx |-> 0])

\* traj_encoder.reset_hidden_state(hidden_state, done): the actors that are done start
\* again from the fresh state, the others keep theirs; None stays None
reset_hidden_state(hidden_state, done) ==
    IF hidden_state.kind = "None" THEN hidden_state
    ELSE HiddenOf([a \in ActorIdx |-> IF done[a] THEN 0 ELSE hidden_state.h[a]])

\* (mutant) get_actions is never given the hidden state
get_actions_arg_none(fast_inference, hidden_state) == NoHidden

\* hidden_state=hidden_state if self.fast_inference else None
get_actions_arg(fast_inference, hidden_state) ==
    IF fast_inference THEN hidden_state ELSE NoHidden

(* the hidden state get_actions returns: given one, the traj_encoder folds the current
   timestep into it; given None it encodes the whole context and returns what the
   sequence model returns for it, None or a state made from that context *)
get_actions_hidden(arg) ==
    IF arg.kind = "state"
    THEN {HiddenOf([a \in ActorIdx |-> arg.h[a] + 1])}
    ELSE {NoHidden, HiddenOf([a \in ActorIdx |-> 1])}

RolloutInit ==
    /\ SyncInit /\ TDIdle /\ MoreIdle
    /\ LossIdle /\ CtorIdle /\ DpgIdle /\ ActIdle /\ EpochIdle
    /\ rollout = [op |-> "none"]

\* interact(envs, timesteps, buffers, hidden_state) up to the loop
InteractBegin ==
    /\ rollout.op = "none"
    /\ \E fast_inference \in BOOLEAN, timesteps \in 1 .. MaxTimesteps,
          given \in {NoHidden, PassedHidden} :
          rollout' = [op |-> "interact.begin",
                      fast_inference |-> fast_inference,
                      timesteps |-> timesteps,
                      step |-> 0,
                      given |-> given,
                      hidden_state |-> IF given.kind = "None" THEN init_hidden_state
                                       ELSE given]
    /\ UNCHANGED <<syncVars, tdVars, moreVars, loss, ctor, dpg, act, epoch>>

\* one iteration of the loop: get_actions, envs.step, get_t(done), reset_hidden_state
InteractStep ==
    /\ rollout.op \in {"interact.begin", "interact.step"}
    /\ rollout.step < rollout.timesteps
    /\ \E done \in [ActorIdx -> BOOLEAN] :
       \E arg \in {get_actions_arg(rollout.fast_inference, rollout.hidden_state)} :
       \E returned \in get_actions_hidden(arg) :
          rollout' = [op |-> "interact.step",
                      fast_inference |-> rollout.fast_inference,
                      timesteps |-> rollout.timesteps,
                      step |-> rollout.step + 1,
                      given |-> rollout.given,
                      held |-> rollout.hidden_state,
                      arg |-> arg,
                      returned |-> returned,
                      done |-> done,
                      hidden_state |-> reset_hidden_state(returned, done)]
    /\ UNCHANGED <<syncVars, tdVars, moreVars, loss, ctor, dpg, act, epoch>>

\* the end of the loop: interact returns the buffers, the hidden state and the histories
InteractReturn ==
    /\ rollout.op \in {"interact.begin", "interact.step"}
    /\ rollout.step = rollout.timesteps
    /\ rollout' = [op |-> "interact.return",
                   fast_inference |-> rollout.fast_inference,
                   timesteps |-> rollout.timesteps,
                   step |-> rollout.step,
                   given |-> rollout.given,
                   hidden_state |-> rollout.hidden_state]
    /\ UNCHANGED <<syncVars, tdVars, moreVars, loss, ctor, dpg, act, epoch>>

RolloutNext == InteractBegin \/ InteractStep \/ InteractReturn

SpecRollout == RolloutInit /\ [][RolloutNext]_vars

\* the hidden state is fresh when interact was given none
CreatedFresh ==
    (rollout.op = "interact.begin" /\ rollout.given.kind = "None")
        => rollout.hidden_state = HiddenOf([a \in ActorIdx |-> 0])

\* after a step the actors that are done hold the fresh state and the others hold
\* what get_actions returned for them
ResetExactlyDone ==
    (rollout.op = "interact.step" /\ rollout.returned.kind = "state") =>
        /\ rollout.hidden_state.kind = "state"
        /\ \A a \in ActorIdx :
              rollout.hidden_state.h[a] =
                  IF rollout.done[a] THEN 0 ELSE rollout.returned.h[a]

\* get_actions was given the hidden state interact held, and returned it one
\* timestep further
CarriedToGetActions ==
    /\ rollout.arg = rollout.held
    /\ rollout.returned.kind = "state"
    /\ \A a \in ActorIdx : rollout.returned.h[a] = rollout.held.h[a] + 1

(* C19: in interact the hidden state is created fresh when none is passed in, is
   carried from each get_actions call to the next, and after every environment
   step exactly the actors whose episode terminated or was truncated are reset,
   the others carried over unchanged. *)
C19_HiddenStateLifecycle ==
    /\ CreatedFresh
    /\ rollout.op = "interact.step" => CarriedToGetActions
    /\ ResetExactlyDone

(* C19, amended: the same, where the hidden state is carried from each
   get_actions call to the next when fast_inference is on; with fast_inference
   off every get_actions call is given no hidden state. *)
C19_HiddenStateLifecycleFastInference ==
    /\ CreatedFresh
    /\ (rollout.op = "interact.step" /\ rollout.fast_inference) => CarriedToGetActions
    /\ (rollout.op = "interact.step" /\ ~rollout.fast_inference)
          => rollout.arg.kind = "None"
    /\ ResetExactlyDone

\* a second step with fast_inference on, after a first step in which one actor's
\* episode ended and the other's did not
C19_Witness ==
    /\ rollout.op = "interact.step"
    /\ rollout.fast_inference
    /\ rollout.given.kind = "None"
    /\ rollout.step = 2
    /\ rollout.held.h[1] = 0
    /\ rollout.held.h[2] = 1
    /\ rollout.done[2] /\ ~rollout.done[1]

(* ------------------------------------------------------------------------ *)
(* Experiment.learn: the epoch loop, one action per stage of an epoch.  The   *)
(* events of the running epoch are kept in the order they happen.             *)
(* ------------------------------------------------------------------------ *)

MaxEpochs == 3
MaxGradUpdates == 2
MaxTrajectories == 2

\* the settings of the Experiment that learn reads
LearnCfgs ==
    [epochs : {MaxEpochs},
     start_learning_at_epoch : 0 .. (MaxEpochs - 1),
     start_collecting_at_epoch : 0 .. (MaxEpochs - 1),
     train_timesteps_per_epoch : {0, 1},
     val_timesteps_per_epoch : {0, 1},
     val_interval : {1, 2},
     train_grad_updates_per_epoch : {MaxGradUpdates},
     dset_max_size : {1},
     ckpt_interval : {1, 2},
     save_latest_ckpt : BOOLEAN]

\* the events of an epoch that interact with an environment
Interactions == {"evaluate_val", "collect_new_training_data"}

\* (mutant) training is never skipped
skips_training_never(ep, count, c) == FALSE

\* `if count_trajectories() == 0: continue / elif epoch < start_learning_at_epoch: continue`
skips_training(ep, count, c) ==
    count = 0 \/ ep < c.start_learning_at_epoch

\* the loop variable of `for epoch in range(start_epoch, self.epochs)` after an epoch
NextEpoch(st) ==
    IF st.epoch + 1 < st.cfg.epochs
    THEN [pc |-> "interact", epoch |-> st.epoch + 1, events |-> <<>>, updates |-> 0]
    ELSE [pc |-> "finished", epoch |-> st.epoch, events |-> <<>>, updates |-> 0]

\* no checkpoint named LATEST has been saved
NoCheckpoint == -1

\* save_checkpoint(saving_latest): the epoch whose state the checkpoint written holds;
\* its name is run_name_LATEST or run_name_epoch_{self.epoch}
save_checkpoint(self_epoch, saving_latest) == self_epoch

LearnInit ==
    /\ SyncInit /\ TDIdle /\ MoreIdle
    /\ LossIdle /\ CtorIdle /\ DpgIdle /\ ActIdle /\ RolloutIdle
    /\ \E c \in LearnCfgs, count \in 0 .. 1 :
          epoch = [op |-> "learn", pc |-> "interact", cfg |-> c, epoch |-> 0,
                   self_epoch |-> 0, events |-> <<>>, updates |-> 0,
                   train_count |-> count, count_at_step |-> count,
                   ckpt_epochs |-> {}, latest_ckpt |-> NoCheckpoint]

\* `if epoch % self.val_interval == 0: self.evaluate_val()`
EvaluateVal ==
    /\ epoch.op = "learn" /\ epoch.pc = "interact"
    /\ epoch' = [epoch EXCEPT
          !.pc = "collect",
          !.events = IF epoch.epoch % epoch.cfg.val_interval = 0
                        /\ epoch.cfg.val_timesteps_per_epoch > 0
                     THEN Append(@, "evaluate_val") ELSE @]
    /\ UNCHANGED <<syncVars, tdVars, moreVars, loss, ctor, dpg, act, rollout>>

\* `if epoch >= self.start_collecting_at_epoch: self.collect_new_training_data()`;
\* the environments save the trajectories that finish during the interaction
CollectNewTrainingData ==
    /\ epoch.op = "learn" /\ epoch.pc = "collect"
    /\ \/ /\ epoch.epoch >= epoch.cfg.start_collecting_at_epoch
          /\ epoch.cfg.train_timesteps_per_epoch > 0
          /\ \E saved \in 0 .. 1 :
                epoch' = [epoch EXCEPT
                   !.pc = "dloaders",
                   !.events = Append(@, "collect_new_training_data"),
                   !.train_count = IF @ + saved > MaxTrajectories THEN @ ELSE @ + saved]
       \/ /\ ~(/\ epoch.epoch >= epoch.cfg.start_collecting_at_epoch
               /\ epoch.cfg.train_timesteps_per_epoch > 0)
          /\ epoch' = [epoch EXCEPT !.pc = "dloaders"]
    /\ UNCHANGED <<syncVars, tdVars, moreVars, loss, ctor, dpg, act, rollout>>

\* init_dloaders, policy.train(), and the two `continue` tests
InitDloaders ==
    /\ epoch.op = "learn" /\ epoch.pc = "dloaders"
    /\ IF skips_training(epoch.epoch, epoch.train_count, epoch.cfg)
       THEN epoch' = [epoch EXCEPT
                !.pc = NextEpoch(epoch).pc, !.epoch = NextEpoch(epoch).epoch,
                !.events = NextEpoch(epoch).events, !.updates = NextEpoch(epoch).updates]
       ELSE epoch' = [epoch EXCEPT !.pc = "train"]
    /\ UNCHANGED <<syncVars, tdVars, moreVars, loss, ctor, dpg, act, rollout>>

\* one iteration of `for train_step, batch in make_pbar(self.train_dloader, ...)`
LearnTrainStep ==
    /\ epoch.op = "learn" /\ epoch.pc = "train"
    /\ epoch.updates < epoch.cfg.train_grad_updates_per_epoch
    /\ epoch' = [epoch EXCEPT
          !.events = Append(@, "train_step"),
          !.updates = @ + 1,
          !.count_at_step = epoch.train_count]
    /\ UNCHANGED <<syncVars, tdVars, moreVars, loss, ctor, dpg, act, rollout>>

\* after the training loop: validation, buffer management, end of the epoch
EndEpoch ==
    /\ epoch.op = "learn" /\ epoch.pc = "train"
    /\ epoch.updates = epoch.cfg.train_grad_updates_per_epoch
    /\ \E kept \in 1 .. epoch.cfg.dset_max_size :
          epoch' = [epoch EXCEPT
             !.pc = NextEpoch(epoch).pc, !.epoch = NextEpoch(epoch).epoch,
             !.events = NextEpoch(epoch).events, !.updates = NextEpoch(epoch).updates,
             !.train_count = IF @ > epoch.cfg.dset_max_size THEN kept ELSE @,
             !.self_epoch = epoch.epoch,
             !.ckpt_epochs = IF epoch.epoch % epoch.cfg.ckpt_interval = 0
                             THEN @ \cup {save_checkpoint(epoch.epoch, FALSE)}
                             ELSE @,
             !.latest_ckpt = IF epoch.cfg.save_latest_ckpt
                             THEN save_checkpoint(epoch.epoch, TRUE)
                             ELSE @]
    /\ UNCHANGED <<syncVars, tdVars, moreVars, loss, ctor, dpg, act, rollout>>

LearnNext ==
    \/ EvaluateVal
    \/ CollectNewTrainingData
    \/ InitDloaders
    \/ LearnTrainStep
    \/ EndEpoch

SpecLearn == LearnInit /\ [][LearnNext]_vars

Learning == epoch.op = "learn"
EventIdx == DOMAIN epoch.events

(* C20: learn strictly interleaves collect and train: in every epoch all
   environment interaction comes before the first train_step, none happens between
   two train_steps, no train_step runs in an epoch below start_learning_at_epoch
   or while the training dataset holds zero trajectories, and no training data is
   collected in an epoch below start_collecting_at_epoch. *)
C20_CollectThenTrain ==
    Learning =>
        /\ \A i, j \in EventIdx :
              (epoch.events[i] = "train_step" /\ epoch.events[j] \in Interactions)
                  => j < i
        /\ (\E i \in EventIdx : epoch.events[i] = "train_step")
              => /\ epoch.epoch >= epoch.cfg.start_learning_at_epoch
                 /\ epoch.count_at_step > 0
        /\ (\E i \in EventIdx : epoch.events[i] = "collect_new_training_data")
              => epoch.epoch >= epoch.cfg.start_collecting_at_epoch

\* an epoch past the first in which validation and collection both ran and two
\* train_steps followed
C20_Witness ==
    /\ Learning
    /\ epoch.epoch > 0
    /\ epoch.events = <<"evaluate_val", "collect_new_training_data",
                        "train_step", "train_step">>
    /\ epoch.cfg.start_learning_at_epoch > 0

(* ------------------------------------------------------------------------ *)
(* Further claims about the parameter state machine, checked under Spec.     *)
(* ------------------------------------------------------------------------ *)

\* the networks that only the sync functions are meant to write
TargetNetworks(s) == {s.target_actor, s.target_critics, s.maximized_critics}

\* the step just taken is an optimizer step of the named operation
StepBy(op) == lastOp' = op /\ stepsDone' = stepsDone + 1

(* C24: the parameters of target_actor, target_critics and maximized_critics
   change only inside hard_sync_targets or soft_sync_targets: the optimizer step
   of Agent.update leaves them as they are, and after train_step they are what its
   soft_sync_targets call made them. *)
C24_OptimizerLeavesTargetsAlone ==
    [][/\ StepBy("update") =>
            \A o \in TargetNetworks(self) : params'[o] = params[o]
       /\ StepBy("train_step") =>
            \A o \in TargetNetworks(self) :
                params'[o] = soft_sync_targets(params, self)[o]]_vars

\* an optimizer step of Agent.update has moved the online actor away from the
\* target actor
C24_Witness ==
    /\ lastOp = "update"
    /\ stepsDone > 0
    /\ \E i \in ParamIdx : OnlineActor[i] # TargetActor[i]
    /\ \E i \in ParamIdx : OnlineCritics[i] # TargetCritics[i]

(* C27: for every agent class an optimizer step of Agent.update changes the
   parameters of the ensemble self.critics refers to, as it changes those of the
   actor: the optimizer built in Agent.__init__ holds the online critics. *)
C27_UpdateTrainsCurrentCritics ==
    [][StepBy("update") =>
          \A i \in ParamIdx :
              params'[self.critics][i] - params[self.critics][i] =
                  params'[self.actor][i] - params[self.actor][i]]_vars

(* ------------------------------------------------------------------------ *)
(* SpecFwd: how forward assembles the actor loss and the critic loss of one   *)
(* trajectory and one gamma.  Every element carries its value and the set of  *)
(* places of the action buffer it was computed from.  Advantages are in units *)
(* of 1e-4.                                                                   *)
(* ------------------------------------------------------------------------ *)

\* Agent.forward: filter_ = (advantage_a_s_g > 1e-3)
AgentFilterThreshold == 10

\* the advantages that are run: below, at and above both thresholds
AdvVals == {-1, 0, 5, AgentFilterThreshold, AgentFilterThreshold + 1}

\* the thresholds binary_filter is configured with: its default 0.0, and -1e-4
FilterThresholds == {0, -1}

FwdCfgs ==
    [cls : {"Agent", "MultiTaskAgent"},
     online_coeff : OnlineCoeffs,
     offline_coeff : OfflineCoeffs,
     fake_filter : BOOLEAN,
     threshold : FilterThresholds,
     dpg_allowed : BOOLEAN]

\* binary_filter(adv, threshold): adv > threshold
binary_filter(adv, threshold) == IF adv > threshold THEN 1 ELSE 0

\* an element of a tensor: its value and the places of a_buffer it read
Elem(v, r) == [value |-> v, reads |-> r]

\* a_buffer = torch.cat((a, a[:, -1].clone()), axis=1): L places, the last a duplicate
a_buffer == SeqOf([l \in StateIdx |-> Elem(1, {l})], SeqLen)

\* (mutant) the slice drops the first timestep instead: x[:, 1:, ...]
drop_first(x) == SubSeq(x, 2, Len(x))

\* x[:, :-1, ...]
drop_last(x) == SubSeq(x, 1, Len(x) - 1)

\* a tensor computed element by element from tensors of the same length
Pointwise(f, n) == SeqOf(f, n)

\* torch.zeros((B, L - 1, G, 1))
zeros == SeqOf([t \in TimeIdx |-> Elem(0, {})], SeqLen - 1)

\* the shape of a tensor over time whose other dimensions are B, G and 1
ShapeOf(x) == <<NumTraj, Len(x), Len(Gammas), 1>>

Tensor(x) == [kind |-> "tensor", elems |-> x, shape |-> ShapeOf(x)]
PyFloat(v) == [kind |-> "float", value |-> v]
PyNone == [kind |-> "None"]

\* actor_loss += coeff * term, on a tensor or on the Python float 0.0
AddTerm(actor_loss, term) ==
    IF actor_loss.kind = "float"
    THEN Tensor(Pointwise([t \in DOMAIN term |->
                Elem(actor_loss.value + term[t].value, term[t].reads)], Len(term)))
    ELSE Tensor(Pointwise([t \in DOMAIN term |->
                Elem(actor_loss.elems[t].value + term[t].value,
                     actor_loss.elems[t].reads \cup term[t].reads)], Len(term)))

\* -(filter_ * logp_a), with logp_a = log_prob(a_buffer)[:, :-1]
fbc_term(filter_, logp_a) ==
    Pointwise([t \in DOMAIN logp_a |->
        Elem(filter_[t].value * logp_a[t].value,
             filter_[t].reads \cup logp_a[t].reads)], Len(logp_a))

\* the DPG term: the maximized critics on the actor's own actions
dpg_term == SeqOf([t \in TimeIdx |-> Elem(AgentFilterThreshold, {})], SeqLen - 1)

\* Agent.forward steps 3 to 7
agent_forward_losses(c, adv) ==
    LET q_s_a_g == Pointwise([t \in TimeIdx |-> Elem(1, drop_last(a_buffer)[t].reads)],
                             SeqLen - 1)
        critic_loss == IF ComputesTD(c) THEN Tensor(q_s_a_g) ELSE PyNone
        loss6 == IF c.online_coeff > 0
                 THEN AddTerm(Tensor(zeros), dpg_term) ELSE Tensor(zeros)
        filter_ == IF ~c.fake_filter
                   THEN Pointwise([t \in TimeIdx |->
                          Elem(IF adv[t] > AgentFilterThreshold THEN 1 ELSE 0,
                               q_s_a_g[t].reads)], SeqLen - 1)
                   ELSE Pointwise([t \in TimeIdx |-> Elem(1, {})], SeqLen - 1)
        logp_a == drop_last(Pointwise([l \in StateIdx |-> Elem(1, a_buffer[l].reads)],
                                      SeqLen))
        loss7 == IF c.offline_coeff > 0
                 THEN AddTerm(loss6, fbc_term(filter_, logp_a)) ELSE loss6
    IN  IF c.online_coeff > 0 /\ ~c.dpg_allowed
        THEN [outcome |-> "AssertionError"]
        ELSE [outcome |-> "returned", critic_loss |-> critic_loss, actor_loss |-> loss7,
              filter_ |-> IF c.offline_coeff > 0 /\ ~c.fake_filter
                          THEN Tensor(filter_) ELSE PyNone]

\* MultiTaskAgent.forward steps 3 to 7
multitask_forward_losses(c, adv) ==
    LET q_s_a_g == Pointwise([l \in StateIdx |-> Elem(1, a_buffer[l].reads)], SeqLen)
        critic_loss == IF ComputesTD(c) THEN Tensor(drop_last(q_s_a_g)) ELSE PyNone
        computes_filter == ~c.fake_filter /\ c.offline_coeff > 0
        filter_ == IF computes_filter
                   THEN drop_last(Pointwise([l \in StateIdx |->
                          Elem(binary_filter(adv[l], c.threshold), q_s_a_g[l].reads)],
                          SeqLen))
                   ELSE Pointwise([t \in TimeIdx |-> Elem(1, {})], SeqLen - 1)
        logp_a == drop_last(Pointwise([l \in StateIdx |-> Elem(1, a_buffer[l].reads)],
                                      SeqLen))
        loss6 == IF c.offline_coeff > 0
                 THEN AddTerm(PyFloat(0), fbc_term(filter_, logp_a)) ELSE PyFloat(0)
        loss7 == IF c.online_coeff > 0 THEN AddTerm(loss6, dpg_term) ELSE loss6
    IN  IF c.online_coeff > 0 /\ ~c.dpg_allowed
        THEN [outcome |-> "AssertionError"]
        ELSE [outcome |-> "returned", critic_loss |-> critic_loss, actor_loss |-> loss7,
              filter_ |-> IF computes_filter THEN Tensor(filter_) ELSE PyNone]

FwdInit ==
    /\ SyncInit /\ TDIdle
    /\ LossIdle /\ CtorIdle /\ DpgIdle /\ ActIdle /\ RolloutIdle /\ EpochIdle
    /\ WritersIdle /\ CollectIdle /\ ProcsIdle
    /\ \E c \in FwdCfgs : fwd = [op |-> "init", cfg |-> c]

\* critic_loss, actor_loss = Agent.forward(batch, log_step)
AgentForwardLosses ==
    /\ fwd.op = "init" /\ fwd.cfg.cls = "Agent"
    /\ \E adv \in [StateIdx -> AdvVals] :
          fwd' = [op |-> "Agent.forward", cfg |-> fwd.cfg, adv |-> adv,
                  out |-> agent_forward_losses(fwd.cfg, adv)]
    /\ UNCHANGED <<syncVars, tdVars, loss, ctor, dpg, act, rollout, epoch,
                   writers, collect, procs>>

\* critic_loss, actor_loss = MultiTaskAgent.forward(batch, log_step)
MultiTaskAgentForwardLosses ==
    /\ fwd.op = "init" /\ fwd.cfg.cls = "MultiTaskAgent"
    /\ \E adv \in [StateIdx -> AdvVals] :
          fwd' = [op |-> "MultiTaskAgent.forward", cfg |-> fwd.cfg, adv |-> adv,
                  out |-> multitask_forward_losses(fwd.cfg, adv)]
    /\ UNCHANGED <<syncVars, tdVars, loss, ctor, dpg, act, rollout, epoch,
                   writers, collect, procs>>

FwdNext == AgentForwardLosses \/ MultiTaskAgentForwardLosses

SpecFwd == FwdInit /\ [][FwdNext]_vars

ForwardReturned ==
    fwd.op \in {"Agent.forward", "MultiTaskAgent.forward"} /\ fwd.out.outcome = "returned"

(* C21: when fake_filter is not set and offline_coeff > 0, the FBC term of a
   timestep is kept exactly when its advantage passes the configured filter
   predicate (binary_filter with its configured threshold, 0 by default) and is
   zeroed otherwise, in Agent.forward and in MultiTaskAgent.forward. *)
C21_FbcKeptIffFilterPasses ==
    (ForwardReturned /\ ~fwd.cfg.fake_filter /\ fwd.cfg.offline_coeff > 0) =>
        /\ fwd.out.filter_.kind = "tensor"
        /\ \A t \in TimeIdx :
              fwd.out.filter_.elems[t].value = 1 <=> fwd.adv[t] > fwd.cfg.threshold

(* C23: the final entry of the length-L action buffer never contributes to a
   loss: actor loss and critic loss have time length L - 1 and read only the
   buffer actions at the first L - 1 timesteps. *)
C23_LastBufferActionUnused ==
    ForwardReturned =>
        /\ fwd.out.actor_loss.kind = "tensor" =>
              /\ Len(fwd.out.actor_loss.elems) = SeqLen - 1
              /\ \A t \in TimeIdx : fwd.out.actor_loss.elems[t].reads \subseteq {t}
        /\ fwd.out.critic_loss.kind = "tensor" =>
              /\ Len(fwd.out.critic_loss.elems) = SeqLen - 1
              /\ \A t \in TimeIdx : fwd.out.critic_loss.elems[t].reads \subseteq {t}

\* a MultiTaskAgent pass that evaluated critics and log-probabilities on all L
\* buffer entries and returned both losses
C23_Witness ==
    /\ fwd.op = "MultiTaskAgent.forward"
    /\ fwd.out.outcome = "returned"
    /\ fwd.out.critic_loss.kind = "tensor"
    /\ fwd.out.actor_loss.kind = "tensor"
    /\ fwd.out.filter_.kind = "tensor"
    /\ fwd.out.actor_loss.elems[SeqLen - 1].reads = {SeqLen - 1}

(* C26: for every combination of online_coeff, offline_coeff and fake_filter,
   MultiTaskAgent.forward returns an actor loss that is a tensor of shape
   (B, L - 1, G, 1), as Agent.forward does. *)
C26_ActorLossIsTensor ==
    ForwardReturned =>
        /\ fwd.out.actor_loss.kind = "tensor"
        /\ fwd.out.actor_loss.shape = <<NumTraj, SeqLen - 1, Len(Gammas), 1>>

(* ------------------------------------------------------------------------ *)
(* A further claim about the masked losses, checked under SpecLoss.          *)
(* ------------------------------------------------------------------------ *)

\* the weight the masked mean of the actor loss gives to timestep t of trajectory b
ActorWeight(bt, b, t, g) ==
    actor_state_mask(batch_state_mask(bt))[ActorAt(b, t, g)]

(* C25: an actor-loss entry at timestep t has non-zero weight in the masked mean
   only if the buffer action at t is a real action, that is, only if timestep
   t + 1 is valid; a padded action clamped into range never has weight. *)
C25_ActorWeightOnlyOnRealActions ==
    LossComputed =>
        \A b \in TrajIdx, t \in TimeIdx, g \in GammaIdx :
            ActorWeight(loss.batches[1], b, t, g) # 0 =>
                /\ loss.batches[1][b].actions[t] # MAGIC_PAD_VAL
                /\ batch_state_mask(loss.batches[1])[b][t + 1] = 1

(***************************************************************************)
(* SpecWriters: who writes the PopArt statistics and the parameters.       *)
(* Experiment.train_step, Experiment.val_step and get_actions on one       *)
(* policy.                                                                 *)
(***************************************************************************)
MaxWriterCalls == 2

WritersCfgs ==
    [cls : {"Agent", "MultiTaskAgent"},
     online_coeff : OnlineCoeffs,
     fake_filter : BOOLEAN,
     num_critics_td : {NumCritics}]

\* Agent.forward, step 4: what the call leaves in self.popart
agent_forward_popart(c, b, pa, qraw, random_subset) ==
    IF ComputesTD(c)
    THEN LET ens == ensemble_td_targets(b, agent_q_targ(pa, qraw))
             td_target == agent_td_aggregate(take_along_dim(ens, random_subset),
                                             c.online_coeff)
         IN  update_stats(pa, td_target, mask_all_critics(critic_mask(b)))
    ELSE pa

\* MultiTaskAgent.forward, step 4: what the call leaves in self.popart
multitask_forward_popart(c, b, pa, qraw, random_subset) ==
    IF ComputesTD(c)
    THEN LET ens == ensemble_td_targets(b, multitask_q_targ(qraw))
             td_target == multitask_td_aggregate(take_along_dim(ens, random_subset),
                                                 c.online_coeff)
         IN  update_stats(pa, td_target, mask_all_critics(critic_mask(b)))
    ELSE pa

\* self.policy(batch, log_step): the forward pass of the policy's class
policy_forward_popart(c, b, pa, qraw, random_subset) ==
    IF c.cls = "Agent" THEN agent_forward_popart(c, b, pa, qraw, random_subset)
    ELSE multitask_forward_popart(c, b, pa, qraw, random_subset)

\* Experiment.init_model and Experiment.init_optimizer
WritersInit ==
    /\ SyncInit /\ TDIdle
    /\ LossIdle /\ CtorIdle /\ DpgIdle /\ ActIdle /\ RolloutIdle /\ EpochIdle
    /\ FwdIdle /\ CollectIdle /\ ProcsIdle
    /\ \E c \in WritersCfgs, seed \in 0 .. MaxSeed, tau \in Taus,
          pa \in {FreshPopArt, TrainedPopArt} :
          LET s0 == AgentSelf(c.cls, tau)
              p0 == hard_sync_targets(Alloc(AgentObjs, 0, seed), s0)
              s1 == MultiTaskSelf(s0)
              p1 == hard_sync_targets(p0 @@ Alloc(TwoHotObjs, Len(AgentObjs), seed), s1)
              s == IF c.cls = "Agent" THEN s0 ELSE s1
              p == IF c.cls = "Agent" THEN p0 ELSE p1
          IN  writers = [op |-> "init", cfg |-> c, policy |-> s,
                         optimizer |-> trainable_params(s),
                         params |-> p, popart |-> pa,
                         params_before |-> p, popart_before |-> pa,
                         batch |-> [rews |-> <<>>], calls |-> 0]

\* Experiment.train_step(batch, log_step): zero_grad, compute_loss, backward,
\* clip_grad_norm_, soft_sync_targets, optimizer.step
WritersTrainStep ==
    /\ writers.op # "none"
    /\ writers.calls < MaxWriterCalls
    /\ \E b \in DpgBatches, qraw \in DpgQRaws,
          random_subset \in DpgSubsets(writers.cfg.num_critics_td), d \in Deltas :
          writers' = [writers EXCEPT
              !.op = "train_step",
              !.batch = b,
              !.params_before = writers.params,
              !.popart_before = writers.popart,
              !.popart = policy_forward_popart(writers.cfg, b, writers.popart, qraw,
                                               random_subset),
              !.params = optimizer_step(soft_sync_targets(writers.params, writers.policy),
                                        writers.optimizer, d),
              !.calls = writers.calls + 1]
    /\ UNCHANGED <<syncVars, tdVars, loss, ctor, dpg, act, rollout, epoch,
                   fwd, collect, procs>>

\* Experiment.val_step(batch): compute_loss(batch, log_step=True) under no_grad
ValStep ==
    /\ writers.op # "none"
    /\ writers.calls < MaxWriterCalls
    /\ \E b \in DpgBatches, qraw \in DpgQRaws,
          random_subset \in DpgSubsets(writers.cfg.num_critics_td) :
          writers' = [writers EXCEPT
              !.op = "val_step",
              !.batch = b,
              !.params_before = writers.params,
              !.popart_before = writers.popart,
              !.popart = policy_forward_popart(writers.cfg, b, writers.popart, qraw,
                                               random_subset),
              !.calls = writers.calls + 1]
    /\ UNCHANGED <<syncVars, tdVars, loss, ctor, dpg, act, rollout, epoch,
                   fwd, collect, procs>>

\* Agent.get_actions(...): the encoders and the actor are evaluated, nothing is
\* assigned
PolicyGetActions ==
    /\ writers.op # "none"
    /\ writers.calls < MaxWriterCalls
    /\ writers' = [writers EXCEPT
          !.op = "get_actions",
          !.params_before = writers.params,
          !.popart_before = writers.popart,
          !.calls = writers.calls + 1]
    /\ UNCHANGED <<syncVars, tdVars, loss, ctor, dpg, act, rollout, epoch,
                   fwd, collect, procs>>

WritersNext == WritersTrainStep \/ ValStep \/ PolicyGetActions

SpecWriters == WritersInit /\ [][WritersNext]_vars

(* C22: the PopArt statistics and the parameters have one writer, the training
   update step: a validation loss computation (Experiment.val_step) and a rollout
   (get_actions) leave the PopArt statistics, the target actor and critic
   parameters and the online parameters as they were. *)
C22_OnlyTrainStepWrites ==
    writers.op \in {"val_step", "get_actions"} =>
        /\ writers.popart = writers.popart_before
        /\ writers.params = writers.params_before

(***************************************************************************)
(* SpecCollect: Experiment.collect_new_training_data over the epochs.      *)
(***************************************************************************)
MaxCollects == 2

\* self.train_buffers = None
NoBuffers == [kind |-> "None"]
\* (obs_seqs, goal_seqs, rl2_seqs) after `added` calls of add_timestep
BuffersOf(added) == [kind |-> "buffers", added |-> added]

\* interact: `if buffers is None:` new sequence buffers and the first get_t(),
\* otherwise the buffers of the previous epoch
interact_buffers(buffers) ==
    IF buffers.kind = "None" THEN BuffersOf(1) ELSE buffers

\* interact: `if hidden_state is None:` a new hidden state
interact_hidden(hidden_state) ==
    IF hidden_state.kind = "None" THEN init_hidden_state ELSE hidden_state

\* the keyword arguments of self.interact(...) in collect_new_training_data:
\* buffers=self.train_buffers; hidden_state is left at its default, None
collect_interact_args(exp) ==
    [buffers |-> exp.train_buffers, hidden_state |-> NoHidden]

\* Experiment.init_envs: self.train_buffers = None, self.hidden_state = None
CollectInit ==
    /\ SyncInit /\ TDIdle
    /\ LossIdle /\ CtorIdle /\ DpgIdle /\ ActIdle /\ RolloutIdle /\ EpochIdle
    /\ FwdIdle /\ WritersIdle /\ ProcsIdle
    /\ \E fast_inference \in BOOLEAN, timesteps \in 0 .. MaxTimesteps :
          collect = [op |-> "init_envs",
                     fast_inference |-> fast_inference,
                     train_timesteps_per_epoch |-> timesteps,
                     train_buffers |-> NoBuffers,
                     self_hidden_state |-> NoHidden,
                     calls |-> 0]

\* collect_new_training_data with train_timesteps_per_epoch = 0: nothing is done
CollectNothing ==
    /\ collect.op \in {"init_envs", "collected"}
    /\ collect.calls < MaxCollects
    /\ collect.train_timesteps_per_epoch = 0
    /\ collect' = [op |-> "collected",
                   fast_inference |-> collect.fast_inference,
                   train_timesteps_per_epoch |-> collect.train_timesteps_per_epoch,
                   train_buffers |-> collect.train_buffers,
                   self_hidden_state |-> collect.self_hidden_state,
                   calls |-> collect.calls + 1]
    /\ UNCHANGED <<syncVars, tdVars, loss, ctor, dpg, act, rollout, epoch,
                   fwd, writers, procs>>

\* collect_new_training_data: the call of interact, up to its loop
CollectInteractBegin ==
    /\ collect.op \in {"init_envs", "collected"}
    /\ collect.calls < MaxCollects
    /\ collect.train_timesteps_per_epoch > 0
    /\ \E args \in {collect_interact_args(collect)} :
          collect' = [op |-> "interact",
                      fast_inference |-> collect.fast_inference,
                      train_timesteps_per_epoch |-> collect.train_timesteps_per_epoch,
                      train_buffers |-> collect.train_buffers,
                      self_hidden_state |-> collect.self_hidden_state,
                      calls |-> collect.calls + 1,
                      args |-> args,
                      step |-> 0,
                      buffers |-> interact_buffers(args.buffers),
                      hidden_state |-> interact_hidden(args.hidden_state),
                      hidden_at_loop |-> interact_hidden(args.hidden_state)]
    /\ UNCHANGED <<syncVars, tdVars, loss, ctor, dpg, act, rollout, epoch,
                   fwd, writers, procs>>

\* one iteration of interact's loop: get_actions, envs.step, get_t(done),
\* reset_hidden_state
CollectInteractStep ==
    /\ collect.op = "interact"
    /\ collect.step < collect.train_timesteps_per_epoch
    /\ \E done \in [ActorIdx -> BOOLEAN] :
       \E arg \in {get_actions_arg(collect.fast_inference, collect.hidden_state)} :
       \E returned \in get_actions_hidden(arg) :
          collect' = [collect EXCEPT
              !.step = collect.step + 1,
              !.buffers = BuffersOf(collect.buffers.added + 1),
              !.hidden_state = reset_hidden_state(returned, done)]
    /\ UNCHANGED <<syncVars, tdVars, loss, ctor, dpg, act, rollout, epoch,
                   fwd, writers, procs>>

\* interact returns: self.train_buffers, self.hidden_state, returns, successes = ...
CollectInteractReturn ==
    /\ collect.op = "interact"
    /\ collect.step = collect.train_timesteps_per_epoch
    /\ collect' = [op |-> "collected",
                   fast_inference |-> collect.fast_inference,
                   train_timesteps_per_epoch |-> collect.train_timesteps_per_epoch,
                   train_buffers |-> collect.buffers,
                   self_hidden_state |-> collect.hidden_state,
                   calls |-> collect.calls]
    /\ UNCHANGED <<syncVars, tdVars, loss, ctor, dpg, act, rollout, epoch,
                   fwd, writers, procs>>

CollectNext ==
    \/ CollectNothing
    \/ CollectInteractBegin
    \/ CollectInteractStep
    \/ CollectInteractReturn

SpecCollect == CollectInit /\ [][CollectNext]_vars

(* C28: across epochs collect_new_training_data resumes a rollout consistently:
   whenever interact continues from the sequence buffers saved by the previous
   epoch, it also continues from the hidden state that the previous interact call
   returned; the hidden state is re-initialised only when the buffers are. *)
C28_ResumesHiddenWithBuffers ==
    (collect.op = "interact" /\ collect.args.buffers.kind = "buffers"
        /\ collect.self_hidden_state.kind = "state") =>
        collect.hidden_at_loop = collect.self_hidden_state

(* ------------------------------------------------------------------------ *)
(* A further claim about the epoch loop, checked under SpecLearn.            *)
(* ------------------------------------------------------------------------ *)

\* the epochs of `range(start_epoch, self.epochs)` whose loop body has been left
EndedEpochs ==
    IF epoch.pc = "finished" THEN 0 .. epoch.epoch ELSE 0 .. (epoch.epoch - 1)

(* C29: every epoch e of learn ends by setting self.epoch to e, and a checkpoint
   is saved for every such e with e % ckpt_interval = 0 (and a latest checkpoint
   every epoch when save_latest_ckpt is set), including the epochs in which
   training is skipped because there are no trajectories yet or
   e < start_learning_at_epoch. *)
C29_EveryEpochEndsWithCheckpoint ==
    (Learning /\ EndedEpochs # {}) =>
        LET last == CHOOSE e \in EndedEpochs : \A f \in EndedEpochs : f <= e
        IN  /\ epoch.self_epoch = last
            /\ \A e \in EndedEpochs :
                  e % epoch.cfg.ckpt_interval = 0 => e \in epoch.ckpt_epochs
            /\ epoch.cfg.save_latest_ckpt => epoch.latest_ckpt = last

(***************************************************************************)
(* SpecProcs: several data-parallel processes run Experiment.learn on one   *)
(* replay dataset on disk. Each process is at one place of the loop body;   *)
(* the processes interleave freely between the calls of                     *)
(* accelerator.wait_for_everyone().                                         *)
(***************************************************************************)
NumProcs == 2
MaxProcEpochs == 2
MaxFiles == 3

ProcIdx == 1 .. NumProcs
\* accelerator.is_main_process
MainProcess == 1

ProcCfgs ==
    [epochs : {MaxProcEpochs},
     start_learning_at_epoch : 0 .. (MaxProcEpochs - 1),
     dset_max_size : {1},
     has_filter_pct : BOOLEAN]

\* the three calls of accelerator.wait_for_everyone() in the loop body
WaitSites == {"wait_collected", "wait_trained", "wait_end"}

\* `for epoch in range(start_epoch, self.epochs)`: the next iteration, or the end
next_iteration(pr, c) ==
    IF pr.epoch + 1 < c.epochs
    THEN [pr EXCEPT !.pc = "interact", !.epoch = pr.epoch + 1]
    ELSE [pr EXCEPT !.pc = "finished"]

\* where a process resumes when wait_for_everyone() returns
after_wait(pr, c) ==
    CASE pr.pc = "wait_collected" -> [pr EXCEPT !.pc = "init_dloaders"]
      [] pr.pc = "wait_trained" -> [pr EXCEPT !.pc = "buffer"]
      [] pr.pc = "wait_end" -> next_iteration(pr, c)

\* needs_filter = dset_size > self.dset_max_size and self.dset_filter_pct is not None
needs_filter(dset_size, c) == dset_size > c.dset_max_size /\ c.has_filter_pct

\* `if needs_filter and self.accelerator.is_main_process`
runs_filter(q, dset_size, c) == needs_filter(dset_size, c) /\ q = MainProcess

ProcsInit ==
    /\ SyncInit /\ TDIdle
    /\ LossIdle /\ CtorIdle /\ DpgIdle /\ ActIdle /\ RolloutIdle /\ EpochIdle
    /\ FwdIdle /\ WritersIdle /\ CollectIdle
    /\ \E c \in ProcCfgs, files \in 0 .. MaxFiles :
          procs = [op |-> "learn", cfg |-> c, files |-> files,
                   proc |-> [q \in ProcIdx |->
                               [pc |-> "interact", epoch |-> 0, filenames |-> files]],
                   filters |-> <<>>]

\* evaluate_val and collect_new_training_data of one process: each of its
\* environments may finish a trajectory and save it as a file of the training dataset
ProcInteract(q) ==
    /\ procs.op = "learn"
    /\ procs.proc[q].pc = "interact"
    /\ \E saved \in 0 .. ParallelActors :
          procs' = [procs EXCEPT
              !.files = IF @ + saved > MaxFiles THEN @ ELSE @ + saved,
              !.proc[q].pc = "wait_collected"]
    /\ UNCHANGED <<syncVars, tdVars, loss, ctor, dpg, act, rollout, epoch,
                   fwd, writers, collect>>

\* accelerator.wait_for_everyone() returns in every process once every process
\* has called it, whichever of the three calls each of them is in
WaitForEveryone ==
    /\ procs.op = "learn"
    /\ \A q \in ProcIdx : procs.proc[q].pc \in WaitSites
    /\ procs' = [procs EXCEPT
          !.proc = [q \in ProcIdx |-> after_wait(procs.proc[q], procs.cfg)]]
    /\ UNCHANGED <<syncVars, tdVars, loss, ctor, dpg, act, rollout, epoch,
                   fwd, writers, collect>>

\* init_dloaders (refresh_files), policy.train() and the two `continue` tests
ProcInitDloaders(q) ==
    /\ procs.op = "learn"
    /\ procs.proc[q].pc = "init_dloaders"
    /\ LET seen == [procs.proc[q] EXCEPT !.filenames = procs.files]
       IN  procs' = [procs EXCEPT !.proc[q] =
              IF seen.filenames = 0 \/ seen.epoch < procs.cfg.start_learning_at_epoch
              THEN next_iteration(seen, procs.cfg)
              ELSE [seen EXCEPT !.pc = "train"]]
    /\ UNCHANGED <<syncVars, tdVars, loss, ctor, dpg, act, rollout, epoch,
                   fwd, writers, collect>>

\* the training loop of one process, up to the wait_for_everyone() after it
ProcTrain(q) ==
    /\ procs.op = "learn"
    /\ procs.proc[q].pc = "train"
    /\ procs' = [procs EXCEPT !.proc[q].pc = "wait_trained"]
    /\ UNCHANGED <<syncVars, tdVars, loss, ctor, dpg, act, rollout, epoch,
                   fwd, writers, collect>>

\* validation, then buffer management up to the call of train_dset.filter
ProcBufferManagement(q) ==
    /\ procs.op = "learn"
    /\ procs.proc[q].pc = "buffer"
    /\ IF runs_filter(q, procs.proc[q].filenames, procs.cfg)
       THEN procs' = [procs EXCEPT
                !.proc[q].pc = "filter",
                !.filters = Append(@, [proc |-> q, epoch |-> procs.proc[q].epoch])]
       ELSE procs' = [procs EXCEPT !.proc[q].pc = "wait_end"]
    /\ UNCHANGED <<syncVars, tdVars, loss, ctor, dpg, act, rollout, epoch,
                   fwd, writers, collect>>

\* train_dset.filter(self.dset_filter_pct) returns: files have been removed
ProcFilterDone(q) ==
    /\ procs.op = "learn"
    /\ procs.proc[q].pc = "filter"
    /\ \E kept \in 0 .. procs.cfg.dset_max_size :
          procs' = [procs EXCEPT
              !.files = IF kept < @ THEN kept ELSE @,
              !.proc[q].pc = "wait_end"]
    /\ UNCHANGED <<syncVars, tdVars, loss, ctor, dpg, act, rollout, epoch,
                   fwd, writers, collect>>

ProcsNext ==
    \/ \E q \in ProcIdx : ProcInteract(q)
    \/ WaitForEveryone
    \/ \E q \in ProcIdx : ProcInitDloaders(q)
    \/ \E q \in ProcIdx : ProcTrain(q)
    \/ \E q \in ProcIdx : ProcBufferManagement(q)
    \/ \E q \in ProcIdx : ProcFilterDone(q)

SpecProcs == ProcsInit /\ [][ProcsNext]_vars

\* process q is removing files of the training dataset
Filtering(q) == procs.proc[q].pc = "filter"

(* C30: with several data-parallel processes in learn the replay dataset is
   filtered by at most one process, the main one, per epoch, only when the number
   of trajectories exceeds dset_max_size and dset_filter_pct is not None, and
   only between the barrier after training and the barrier that ends the epoch:
   no process is training or collecting while files are being removed. *)
C30_FilterWhileNobodyTrainsOrCollects ==
    procs.op = "learn" =>
        /\ \A i \in DOMAIN procs.filters :
              /\ procs.filters[i].proc = MainProcess
              /\ \A j \in DOMAIN procs.filters :
                    procs.filters[j].epoch = procs.filters[i].epoch => j = i
        /\ \A q \in ProcIdx : Filtering(q) =>
              /\ needs_filter(procs.proc[q].filenames, procs.cfg)
              /\ \A o \in ProcIdx \ {q} :
                    procs.proc[o].pc \notin {"interact", "train"}

====
